---- MODULE Spec2Model ----
(***************************************************************************)
(* Model of the per-channel Markov brain (package markov: Brain, Manager)  *)
(* and of the configuration capability it consumes (package config).       *)
(*                                                                         *)
(* Text is a sequence of Unicode code points (Go runes).  S("...") is      *)
(* only notation: it turns a printable-ASCII literal into its code points. *)
(***************************************************************************)
EXTENDS Integers, Sequences, FiniteSets, TLC

(***************************************************************************)
(* Notation for text literals                                              *)
(***************************************************************************)
Lower == "abcdefghijklmnopqrstuvwxyz"
Upper == "ABCDEFGHIJKLMNOPQRSTUVWXYZ"
Punct == " !-./:_"

Index(alphabet, c) == CHOOSE i \in 1..Len(alphabet) : SubSeq(alphabet, i, i) = c
In(alphabet, c) == \E i \in 1..Len(alphabet) : SubSeq(alphabet, i, i) = c

\* code point of a one-character literal
Ord(c) ==
    IF In(Lower, c) THEN 96 + Index(Lower, c)
    ELSE IF In(Upper, c) THEN 64 + Index(Upper, c)
    ELSE <<32, 33, 45, 46, 47, 58, 95>>[Index(Punct, c)]

S(str) == [i \in 1..Len(str) |-> Ord(SubSeq(str, i, i))]

(***************************************************************************)
(* Go standard library: strings / unicode                                  *)
(***************************************************************************)
\* unicode.ToLower restricted to ASCII and Latin-1 letters
ToLowerRune(r) ==
    IF r \in 65..90 THEN r + 32
    ELSE IF r \in 192..222 /\ r # 215 THEN r + 32
    ELSE r

\* strings.ToLower
ToLower(s) == [i \in 1..Len(s) |-> ToLowerRune(s[i])]

\* strings.EqualFold (simple case folding)
EqualFold(s, t) == ToLower(s) = ToLower(t)

\* unicode.IsSpace
IsSpace(r) ==
    \/ r \in 9..13
    \/ r \in {32, 133, 160, 5760, 8232, 8233, 8239, 8287, 12288}
    \/ r \in 8192..8202

\* strings.HasPrefix
HasPrefix(s, p) == Len(s) >= Len(p) /\ SubSeq(s, 1, Len(p)) = p

\* strings.Contains
Contains(s, sub) ==
    \E i \in 0..(Len(s) - Len(sub)) : SubSeq(s, i + 1, i + Len(sub)) = sub

RECURSIVE FieldsFrom(_, _, _, _)
FieldsFrom(s, i, cur, acc) ==
    IF i > Len(s)
    THEN IF cur = <<>> THEN acc ELSE Append(acc, cur)
    ELSE IF IsSpace(s[i])
         THEN FieldsFrom(s, i + 1, <<>>, IF cur = <<>> THEN acc ELSE Append(acc, cur))
         ELSE FieldsFrom(s, i + 1, Append(cur, s[i]), acc)

\* strings.Fields: the maximal runs of non-space runes, in order
Fields(s) == FieldsFrom(s, 1, <<>>, <<>>)

RECURSIVE JoinFrom(_, _)
JoinFrom(words, i) ==
    IF i > Len(words) THEN <<>>
    ELSE IF i = Len(words) THEN words[i]
    ELSE words[i] \o <<32>> \o JoinFrom(words, i + 1)

\* strings.Join(words, " ")
Join(words) == JoinFrom(words, 1)

(***************************************************************************)
(* Text admission filter (package markov)                                  *)
(***************************************************************************)
\* isEmoji: the code-point ranges of the source, range for range
isEmoji(r) ==
    \/ (r >= \H1F300 /\ r <= \H1F9FF)
    \/ (r >= \H2600 /\ r <= \H26FF)
    \/ (r >= \H2700 /\ r <= \H27BF)
    \/ (r >= \H1F600 /\ r <= \H1F64F)
    \/ (r >= \H1F680 /\ r <= \H1F6FF)
    \/ (r >= \H1F1E0 /\ r <= \H1F1FF)
    \/ (r >= \H231A /\ r <= \H231B)
    \/ (r >= \H23E9 /\ r <= \H23F3)
    \/ (r >= \H25AA /\ r <= \H25AB)
    \/ (r >= \H25B6 /\ r <= \H25C0)
    \/ (r >= \H25FB /\ r <= \H25FE)
    \/ (r >= \H2614 /\ r <= \H2615)
    \/ (r >= \H2648 /\ r <= \H2653)
    \/ (r >= \H267F /\ r <= \H267F)
    \/ (r >= \H2934 /\ r <= \H2935)
    \/ (r >= \H2B05 /\ r <= \H2B07)
    \/ (r >= \H2B1B /\ r <= \H2B1C)
    \/ (r >= \H2B50 /\ r <= \H2B50)
    \/ (r >= \H2B55 /\ r <= \H2B55)
    \/ (r >= \H3030 /\ r <= \H3030)
    \/ (r >= \H303D /\ r <= \H303D)
    \/ (r >= \H3297 /\ r <= \H3299)
    \/ (r >= \HFE0F /\ r <= \HFE0F)
    \/ (r >= \H200D /\ r <= \H200D)

\* isMostlyEnglish: every rune is ASCII or emoji
isMostlyEnglish(text) ==
    \A i \in 1..Len(text) : ~(text[i] > 127 /\ ~isEmoji(text[i]))

\* the replacement table of normalizeASCII
Replacement(r) ==
    IF r \in {\H2018, \H2019, \H201A, \H201B, \H2032, \H2035} THEN <<39>>
    ELSE IF r \in {\H201C, \H201D, \H201E, \H201F, \H2033, \H2036} THEN <<34>>
    ELSE IF r \in {\H2010, \H2011, \H2012, \H2013, \H2014, \H2015} THEN <<45>>
    ELSE IF r = \H2026 THEN <<46, 46, 46>>
    ELSE IF r \in {\H00A0, \H2002, \H2003, \H2009} THEN <<32>>
    ELSE <<r>>

RECURSIVE normalizeFrom(_, _)
normalizeFrom(s, i) ==
    IF i > Len(s) THEN <<>> ELSE Replacement(s[i]) \o normalizeFrom(s, i + 1)

\* normalizeASCII: rune-by-rune substitution
normalizeASCII(s) == normalizeFrom(s, 1)

\* the pattern list of containsLink
linkPatterns ==
    { S("http://"), S("https://"), S("www."), S(".com"), S(".org"), S(".net"),
      S(".tv"), S(".gg"), S(".io"), S(".co"), S(".me"), S(".be"), S(".ru"),
      S(".xyz"), S(".info"), S(".link"), S(".click"), S(".site"), S(".online"),
      S(".top"), S(".ly"), S(".gl"), S(".to"), S(".live"), S(".stream"),
      S(".uk"), S(".de"), S(".fr"), S(".shop"), S(".store") }

containsLinkMutant(text) == Contains(ToLower(text), S("http"))

\* containsLink: a pattern is a substring of the lower-cased text
containsLink(text) ==
    LET lower == ToLower(text)
    IN  \E pattern \in linkPatterns : Contains(lower, pattern)

\* Brain.containsBlacklistedWord, the blacklist being what
\* cfg.GetBlacklistedWords returned
containsBlacklistedWordMutant(message, blacklist) ==
    LET words == Fields(message)
    IN  \E entry \in blacklist :
          LET blacklisted == ToLower(entry)
          IN  IF Contains(blacklisted, <<32>>)
              THEN Contains(message, blacklisted)
              ELSE \E k \in 1..Len(words) : words[k] = blacklisted

containsBlacklistedWordSubstringMutant(message, blacklist) ==
    LET lowerMessage == ToLower(message)
    IN  \E entry \in blacklist : Contains(lowerMessage, ToLower(entry))

containsBlacklistedWord(message, blacklist) ==
    LET lowerMessage == ToLower(message)
        words == Fields(lowerMessage)
    IN  \E entry \in blacklist :
          LET blacklisted == ToLower(entry)
          IN  IF Contains(blacklisted, <<32>>)
              THEN Contains(lowerMessage, blacklisted)
              ELSE \E k \in 1..Len(words) : words[k] = blacklisted

(***************************************************************************)
(* Transition store: the rows of table transitions, keyed by the triple    *)
(* (word1, word2, next_word), as a function from the stored triples to     *)
(* their count                                                             *)
(***************************************************************************)
EmptyStore == [t \in {} |-> 0]

\* INSERT ... VALUES (?, ?, ?, 1) ON CONFLICT DO UPDATE SET count = count + 1
UpsertMutant(store, triple) ==
    IF triple \in DOMAIN store THEN store ELSE store @@ (triple :> 1)

Upsert(store, triple) ==
    IF triple \in DOMAIN store
    THEN [store EXCEPT ![triple] = @ + 1]
    ELSE store @@ (triple :> 1)

\* the loop guard of learn: all three words the same
IsLoopMutant(word1, word2, nextWord) == FALSE

IsLoop(word1, word2, nextWord) == word1 = word2 /\ word2 = nextWord

RECURSIVE learnFrom(_, _, _)
learnFrom(store, words, i) ==
    IF i > Len(words) - 2 THEN store
    ELSE IF IsLoop(words[i], words[i + 1], words[i + 2])
         THEN learnFrom(store, words, i + 1)
         ELSE learnFrom(Upsert(store, <<words[i], words[i + 1], words[i + 2]>>),
                        words, i + 1)

learnShortMutant(store, message) ==
    LET words == Fields(message)
    IN  IF Len(words) = 2 THEN Upsert(store, <<words[1], words[2], <<>>>>)
        ELSE IF Len(words) < 3 THEN store ELSE learnFrom(store, words, 1)

\* Brain.learn on an open store
learn(store, message) ==
    LET words == Fields(message)
    IN  IF Len(words) < 3 THEN store ELSE learnFrom(store, words, 1)

\* whether learn reaches a b.db.Exec call for this message
learnTouchesDB(message) ==
    LET words == Fields(message)
    IN  /\ Len(words) >= 3
        /\ \E i \in 1..(Len(words) - 2) : ~IsLoop(words[i], words[i + 1], words[i + 2])

\* DELETE FROM transitions WHERE word1 = ? AND word2 = ? AND next_word = ?
DeleteRow(store, triple) ==
    [t \in DOMAIN store \ {triple} |-> store[t]]

\* UPDATE transitions SET count = ? WHERE ...: no row is created
UpdateRow(store, triple, count) ==
    IF triple \in DOMAIN store THEN [store EXCEPT ![triple] = count] ELSE store

\* rows SELECT next_word, count ... WHERE word1 = ? AND word2 = ? returns
Candidates(store, word1, word2) ==
    {t \in DOMAIN store : t[1] = word1 /\ t[2] = word2}

\* the rows of a set of stored triples as a query returns them, one
\* <<next_word, count>> per row
RECURSIVE RowsOf(_, _)
RowsOf(store, triples) ==
    IF triples = {} THEN <<>>
    ELSE LET t == CHOOSE x \in triples : TRUE
         IN  <<<<t[3], store[t]>>>> \o RowsOf(store, triples \ {t})

Rows(store, word1, word2) == RowsOf(store, Candidates(store, word1, word2))

\* totalWeight: the sum of the counts of the rows
RECURSIVE TotalWeightFrom(_, _)
TotalWeightFrom(rows, i) ==
    IF i > Len(rows) THEN 0 ELSE rows[i][2] + TotalWeightFrom(rows, i + 1)

TotalWeight(rows) == TotalWeightFrom(rows, 1)

\* the test r < cumulative of the selection loop
HitMutant(r, cumulative) == r <= cumulative

Hit(r, cumulative) == r < cumulative

\* the selection loop: the first candidate whose cumulative weight exceeds r;
\* nextWord stays "" when the loop ends without a hit
RECURSIVE PickFrom(_, _, _, _)
PickFrom(rows, r, i, cumulative) ==
    IF i > Len(rows) THEN <<>>
    ELSE IF Hit(r, cumulative + rows[i][2]) THEN rows[i][1]
    ELSE PickFrom(rows, r, i + 1, cumulative + rows[i][2])

\* weighted random selection for the draw r = rng.Intn(totalWeight)
Pick(rows, r) == PickFrom(rows, r, 1, 0)

SelectableMutant(store, word1, word2) == {word1}

\* the tokens the weighted selection can return: r ranges over
\* 0..totalWeight-1
Selectable(store, word1, word2) ==
    LET rows == Rows(store, word1, word2)
    IN  {Pick(rows, r) : r \in 0..(TotalWeight(rows) - 1)}

\* GenerateGlobal: the rows of every brain of the snapshot for one context,
\* appended brain after brain
PoolRowsMutant(stores, word1, word2) ==
    IF Len(stores) = 0 THEN <<>> ELSE Rows(stores[1], word1, word2)

RECURSIVE PoolRowsFrom(_, _, _, _)
PoolRowsFrom(stores, word1, word2, k) ==
    IF k > Len(stores) THEN <<>>
    ELSE Rows(stores[k], word1, word2) \o PoolRowsFrom(stores, word1, word2, k + 1)

PoolRows(stores, word1, word2) == PoolRowsFrom(stores, word1, word2, 1)

WalkStopMutant(store, result, word1, word2, i, maxWords) == {Join(result)}

RECURSIVE Walk(_, _, _, _, _, _)
Walk(store, result, word1, word2, i, maxWords) ==
    IF i >= maxWords \/ Candidates(store, word1, word2) = {}
    THEN {Join(result)}
    ELSE UNION { Walk(store, Append(result, nextWord), word2, nextWord, i + 1, maxWords) :
                 nextWord \in Selectable(store, word1, word2) }

\* Brain.Generate on an open store: every text one call can return
Generate(store, maxWords) ==
    IF DOMAIN store = {}
    THEN {<<>>}
    ELSE UNION { Walk(store, <<t[1], t[2]>>, t[1], t[2], 0, maxWords) : t \in DOMAIN store }

(***************************************************************************)
(* Bounds and inputs                                                       *)
(***************************************************************************)
MaxCalls == 3          \* admitted ProcessMessageWithInfo calls in one behaviour
MaxInterval == 2       \* largest configured response interval
MaxEdits == 1          \* administrative edits in one behaviour

Threads == {"t1", "t2"}

\* \H1F600 is an emoji (Emoticons block), \H00E9 a non-ASCII letter that is
\* no emoji
Messages ==
    { S("go go go"),
      S("go go go ") \o <<\H1F600>> \o S(" go go ") \o <<\H1F600>>,
      S("Bad day so"),
      S("!go go go"),
      S("see a.co now"),
      S("caf") \o <<\H00E9>> \o S(" is so") }

\* messages with punctuation of the normalization table: a right single
\* quote, an em dash, an ellipsis, a non-breaking space
PunctuatedMessages ==
    { S("it") \o <<\H2019>> \o S("s so go"),
      S("go ") \o <<\H2014>> \o S(" go go"),
      S("go") \o <<\H2026>> \o S(" go go"),
      S("go") \o <<\H00A0>> \o S("go go go") }

\* messages with fewer than three tokens
ShortMessages == { S("hi"), S("go go") }

\* a message that ends in an emoji token
EmojiMessage == S("day so ") \o <<\H1F600>> \o S(" ok")

\* a message whose triples form a cycle
LongMessage == S("go go go ") \o <<\H1F600>> \o S(" go go ") \o <<\H1F600>>

Usernames == { S("bob"), S("BOT"), S("Troll") }

\* the (message, username) pairs of the calls: every message from an ordinary
\* user, and one learnable message from each user
Inputs ==
    {<<m, S("bob")>> : m \in Messages} \cup {<<S("go go go"), u>> : u \in Usernames}

BotUsername == S("Bot")

\* the globalGenerator argument: nil, or an injected function
Generators == { "nil", "global" }

\* texts an injected generator may return
GlobalOutputs == { <<>>, S("so Bad day") }

\* words an administrator adds to the blacklist
BlacklistWords == { S("Bad") }

EditTriples ==
    { <<S("go"), S("go"), S("go")>>, <<S("go"), S("go"), <<\H1F600>>>> }

EditCounts == { 0, 2 }

(***************************************************************************)
(* State                                                                   *)
(***************************************************************************)
VARIABLES
    Channel,          \* Brain.Channel
    db,               \* Brain.db: "open", "closed" (Close) or "nil" (Delete)
    mu,               \* Brain.mu: "free", or the thread holding the write lock
    msgCounter,       \* Brain.msgCounter
    transitions,      \* table transitions of the brain's database
    stateCounter,     \* row msg_counter of table state: <<>> or <<value>>
    lastMessage,      \* row last_message of table state (<<>> when absent)
    fileExists,       \* the brain's database file
    blacklist,        \* table blacklist of the main database
    userBlacklist,    \* table user_blacklist of the main database
    channelInterval,  \* channels.message_interval of the brain's channel
    messageInterval,  \* config value message_interval, as Atoi reads it
    channelMessages,  \* channels.message_count of the brain's channel
    pc,               \* position of each thread in ProcessMessageWithInfo
    args,             \* arguments of each thread's current call
    local,            \* message, shouldRespond, response, i of each call
    result,           \* the GenerationResult each call builds and returns
    crashed,          \* a nil store handle was dereferenced (panic)
    calls,            \* history: calls admitted to learning
    eligible,         \* history: calls that went through the counter section
    triggers,         \* history: calls whose shouldRespond was true
    ordinal,          \* history: a call's rank among the eligible calls
    genCalls,         \* history: generator invocations of the current call
    lastOutput,       \* history: what the latest generator invocation returned
    checkedBlacklist, \* history: the blacklist the latest recheck read
    learned,          \* history: how often learn was called with each text
    edits,            \* history: administrative edits made
    registry,         \* Manager.brains: lower-cased channel -> Brain (an id)
    nextBrain,        \* Brains constructed so far; ids are 1..nextBrain
    files,            \* channels whose database file exists in the brains directory
    gpc,              \* position of each thread in Manager.GetBrain
    gchannel,         \* the channel argument of each thread's GetBrain call
    gbrain,           \* the Brain the call returns (0 is nil)
    deleter,          \* Manager.DeleteBrain between eviction and file removal
    viaLock,          \* history: the call took the write-lock path
    constructed,      \* history: Brains constructed per key since its last eviction
    evictions,        \* history: evictions per key
    epoch,            \* history: evictions of the key when the call returned
    eraseErr,         \* what the latest Brain.Erase returned: "none" before any call
    rowsRemoved,      \* what the latest Brain.Clean returned: <<>> or <<count>>
    gg,               \* Manager.GenerateGlobal: position and locals of the call
    gaccess,          \* history: lock state at GenerateGlobal's latest store read
    pureFn,           \* the function the latest direct application exercised
    pureIn,           \* its arguments
    pureOut,          \* its value
    others,           \* the Brains of the other channels in Manager.brains
    gen,              \* Generate / GenerateGlobal calls in progress, per goroutine
    client            \* the IRC Client of the channel and its ConnectWithRetry call

brainVars == <<Channel, db, mu, msgCounter, transitions, stateCounter,
               lastMessage, fileExists>>
configVars == <<blacklist, userBlacklist, channelInterval, messageInterval,
                channelMessages>>
callVars == <<pc, args, local, result>>
historyVars == <<calls, eligible, triggers, ordinal, genCalls, lastOutput,
                 checkedBlacklist, learned, edits>>
mgrVars == <<registry, nextBrain, files, gpc, gchannel, gbrain, deleter,
             viaLock, constructed, evictions, epoch>>
maintVars == <<eraseErr, rowsRemoved>>
globalVars == <<gg, gaccess>>
pureVars == <<pureFn, pureIn, pureOut>>
otherVars == <<others>>
rngVars == <<gen>>
clientVars == <<client>>
auxVars == <<maintVars, globalVars, pureVars, otherVars, rngVars, clientVars>>
vars == <<brainVars, configVars, callVars, crashed, historyVars, mgrVars, auxVars>>

(***************************************************************************)
(* Configuration capability (package config)                               *)
(***************************************************************************)
DefaultInterval == 35

\* Config.GetMessageInterval
GetMessageInterval(value) == IF value = 0 THEN DefaultInterval ELSE value

\* Config.GetChannelMessageInterval
GetChannelMessageInterval(perChannel, value) ==
    IF perChannel = 0 THEN GetMessageInterval(value) ELSE perChannel

\* Config.IsBlacklistedUser
IsBlacklistedUser(users, username) == ToLower(username) \in users

(***************************************************************************)
(* Brain.ProcessMessageWithInfo                                            *)
(***************************************************************************)
MaxAttempts == 5
MaxWords == 20

EmptyResult ==
    [ Triggered |-> FALSE, Success |-> FALSE, Response |-> <<>>, Attempts |-> 0,
      FailureReason |-> "", Counter |-> 0, Interval |-> 0, UsingGlobal |-> FALSE ]

EmptyLocal ==
    [ message |-> <<>>, shouldRespond |-> FALSE, response |-> <<>>, i |-> 0 ]

\* the early returns of ProcessMessageWithInfo, in source order
RejectedMutant(channel, message, username, botUsername, users, words) ==
    \/ HasPrefix(message, S("!"))
    \/ EqualFold(username, botUsername)
    \/ EqualFold(channel, botUsername)
    \/ containsLink(message)
    \/ ~isMostlyEnglish(message)
    \/ containsBlacklistedWord(message, words)

Rejected(channel, message, username, botUsername, users, words) ==
    \/ HasPrefix(message, S("!"))
    \/ EqualFold(username, botUsername)
    \/ EqualFold(channel, botUsername)
    \/ IsBlacklistedUser(users, username)
    \/ containsLink(message)
    \/ ~isMostlyEnglish(message)
    \/ containsBlacklistedWord(message, words)

\* shouldRespond := b.msgCounter >= channelInterval
ShouldRespondMutant(counter, interval) == counter > interval

ShouldRespondNeverMutant(counter, interval) == FALSE

ShouldRespond(counter, interval) == counter >= interval

\* if shouldRespond { b.msgCounter = 0 }
ResetCounterMutant(counter, shouldRespond) == counter

ResetCounterToOneMutant(counter, shouldRespond) ==
    IF shouldRespond THEN 1 ELSE counter

ResetCounter(counter, shouldRespond) == IF shouldRespond THEN 0 ELSE counter

\* the loop condition i < 5 of the generation phase
MoreAttemptsMutant(i) == i <= MaxAttempts

MoreAttempts(i) == i < MaxAttempts

\* the reason reported when the loop ends without success
FinalReasonMutant(reason) == IF reason # "" THEN "unknown" ELSE reason

FinalReasonUnknownMutant(reason) == "unknown"

FinalReason(reason) == IF reason = "" THEN "unknown" ELSE reason

\* a goroutine that is in neither Generate nor GenerateGlobal
EmptyGen ==
    [ pc |-> "idle", call |-> "", word1 |-> <<>>, word2 |-> <<>>, i |-> 0 ]

\* a Client as NewClient returns it, no ConnectWithRetry call made
EmptyClient ==
    [ pc |-> "idle", conn |-> "nil", writer |-> FALSE, running |-> FALSE,
      sent |-> <<>>, onConnect |-> 0, maxRetries |-> 0, baseDelay |-> 0,
      attempt |-> 0, dials |-> 0, waits |-> <<>>, ret |-> "" ]

\* GenerateGlobal not running
EmptyGlobal ==
    [ pc |-> "idle", word1 |-> <<>>, word2 |-> <<>>, result |-> <<>>, i |-> 0 ]

EmptyArgs ==
    [ message |-> <<>>, username |-> <<>>, botUsername |-> <<>>,
      globalGenerator |-> "nil" ]

\* entry of the call: the checks up to normalizeASCII; a rejected call
\* returns the zero GenerationResult
Begin(t, inputs) ==
    /\ ~crashed
    /\ pc[t] = "idle"
    /\ calls < MaxCalls
    /\ \E input \in inputs, generator \in Generators :
         IF Rejected(Channel, input[1], input[2], BotUsername, userBlacklist, blacklist)
         THEN /\ args' = [args EXCEPT ![t] =
                            [ message |-> input[1], username |-> input[2],
                              botUsername |-> BotUsername, globalGenerator |-> "nil" ]]
              /\ pc' = [pc EXCEPT ![t] = "done"]
              /\ UNCHANGED <<local, calls>>
         ELSE /\ args' = [args EXCEPT ![t] =
                            [ message |-> input[1], username |-> input[2],
                              botUsername |-> BotUsername, globalGenerator |-> generator ]]
              /\ pc' = [pc EXCEPT ![t] = "learn"]
              /\ local' = [local EXCEPT ![t].message = normalizeASCII(input[1])]
              /\ calls' = calls + 1
    /\ result' = [result EXCEPT ![t] = EmptyResult]
    /\ UNCHANGED <<mgrVars, auxVars, brainVars, configVars, crashed, eligible, triggers, ordinal,
                   genCalls, lastOutput, checkedBlacklist, learned, edits>>

\* the call has returned result[t] to its caller; the thread is free again
Return(t) ==
    /\ ~crashed
    /\ pc[t] = "done"
    /\ pc' = [pc EXCEPT ![t] = "idle"]
    /\ args' = [args EXCEPT ![t] = EmptyArgs]
    /\ local' = [local EXCEPT ![t] = EmptyLocal]
    /\ result' = [result EXCEPT ![t] = EmptyResult]
    /\ ordinal' = [ordinal EXCEPT ![t] = 0]
    /\ genCalls' = [genCalls EXCEPT ![t] = 0]
    /\ lastOutput' = [lastOutput EXCEPT ![t] = <<>>]
    /\ checkedBlacklist' = [checkedBlacklist EXCEPT ![t] = {}]
    /\ UNCHANGED <<mgrVars, auxVars, brainVars, configVars, crashed, calls, eligible, triggers,
                   learned, edits>>

\* b.learn(message); b.cfg.IncrementChannelMessages(b.Channel)
Learn(t) ==
    /\ ~crashed
    /\ pc[t] = "learn"
    /\ Len(Fields(local[t].message)) < 3 \/ mu = "free"
    /\ IF learnTouchesDB(local[t].message) /\ db = "nil"
       THEN /\ crashed' = TRUE
            /\ UNCHANGED <<transitions, channelMessages, pc, learned>>
       ELSE /\ transitions' =
                   IF db = "open" THEN learn(transitions, local[t].message)
                   ELSE transitions
            /\ channelMessages' = channelMessages + 1
            /\ pc' = [pc EXCEPT ![t] = "counter"]
            /\ learned' = [learned EXCEPT ![local[t].message] = @ + 1]
            /\ UNCHANGED crashed
    /\ UNCHANGED <<mgrVars, auxVars, Channel, db, mu, msgCounter, stateCounter, lastMessage, fileExists,
                   blacklist, userBlacklist, channelInterval, messageInterval,
                   args, local, result,
                   calls, eligible, triggers, ordinal, genCalls, lastOutput,
                   checkedBlacklist, edits>>

\* b.mu.Lock(); b.msgCounter++; the interval is read and compared
CounterLock(t) ==
    /\ ~crashed
    /\ pc[t] = "counter"
    /\ mu = "free"
    /\ mu' = t
    /\ msgCounter' = msgCounter + 1
    /\ LET channelInterval_ == GetChannelMessageInterval(channelInterval, messageInterval)
       IN  /\ result' = [result EXCEPT ![t].Counter = msgCounter',
                                       ![t].Interval = channelInterval_]
           /\ local' = [local EXCEPT ![t].shouldRespond =
                                         ShouldRespond(msgCounter', channelInterval_)]
    /\ pc' = [pc EXCEPT ![t] = "unlock"]
    /\ eligible' = eligible + 1
    /\ ordinal' = [ordinal EXCEPT ![t] = eligible + 1]
    /\ UNCHANGED <<mgrVars, auxVars, Channel, db, transitions, stateCounter, lastMessage, fileExists,
                   configVars, args, crashed,
                   calls, triggers, genCalls, lastOutput, checkedBlacklist, learned, edits>>

\* the reset, b.saveCounter(), b.mu.Unlock() and the set-up of the generation phase
CounterUnlock(t) ==
    /\ ~crashed
    /\ pc[t] = "unlock"
    /\ mu = t
    /\ msgCounter' = ResetCounter(msgCounter, local[t].shouldRespond)
    /\ stateCounter' = IF db = "open" THEN <<msgCounter'>> ELSE stateCounter
    /\ mu' = "free"
    /\ IF local[t].shouldRespond
       THEN /\ result' = [result EXCEPT ![t].Counter = 0,
                                       ![t].Triggered = TRUE,
                                       ![t].UsingGlobal = (args[t].globalGenerator # "nil")]
            /\ pc' = [pc EXCEPT ![t] = "gen"]
            /\ triggers' = triggers + 1
       ELSE /\ pc' = [pc EXCEPT ![t] = "done"]
            /\ UNCHANGED <<result, triggers>>
    /\ UNCHANGED <<mgrVars, auxVars, Channel, db, transitions, lastMessage, fileExists,
                   configVars, args, local, crashed,
                   calls, eligible, ordinal, genCalls, lastOutput, checkedBlacklist,
                   learned, edits>>

\* the part of one loop iteration after the generator returned response
AfterGenerate(t, response) ==
    /\ genCalls' = [genCalls EXCEPT ![t] = @ + 1]
    /\ lastOutput' = [lastOutput EXCEPT ![t] = response]
    /\ IF response = <<>>
       THEN /\ local' = [local EXCEPT ![t].i = @ + 1]
            /\ IF MoreAttempts(local[t].i + 1)
               THEN /\ result' = [result EXCEPT ![t].Attempts = local[t].i + 1,
                                               ![t].FailureReason = "empty_generation"]
                    /\ pc' = pc
               ELSE /\ result' = [result EXCEPT ![t].Attempts = local[t].i + 1,
                                               ![t].FailureReason =
                                                   FinalReason("empty_generation")]
                    /\ pc' = [pc EXCEPT ![t] = "done"]
       ELSE /\ local' = [local EXCEPT ![t].response = response]
            /\ result' = [result EXCEPT ![t].Attempts = local[t].i + 1]
            /\ pc' = [pc EXCEPT ![t] = "check"]

\* one loop iteration up to the blacklist recheck: result.Attempts = i + 1;
\* response := generator(20); the empty-response branch
Attempt(t) ==
    /\ ~crashed
    /\ pc[t] = "gen"
    /\ IF args[t].globalGenerator = "nil"
       THEN \* b.Generate: RLock, then queries on b.db
            /\ mu = "free"
            /\ IF db = "nil"
               THEN /\ crashed' = TRUE
                    /\ UNCHANGED <<local, result, pc, genCalls, lastOutput>>
               ELSE /\ UNCHANGED crashed
                    /\ \E response \in (IF db = "open" THEN Generate(transitions, MaxWords)
                                        ELSE {<<>>}) :
                         AfterGenerate(t, response)
       ELSE /\ UNCHANGED crashed
            /\ \E response \in GlobalOutputs : AfterGenerate(t, response)
    /\ UNCHANGED <<mgrVars, auxVars, brainVars, configVars, args,
                   calls, eligible, triggers, ordinal, checkedBlacklist, learned, edits>>

\* the rest of the iteration: b.containsBlacklistedWord(response), then either
\* continue or the success branch with b.saveLastMessage(response)
Check(t) ==
    /\ ~crashed
    /\ pc[t] = "check"
    /\ checkedBlacklist' = [checkedBlacklist EXCEPT ![t] = blacklist]
    /\ IF containsBlacklistedWord(local[t].response, blacklist)
       THEN /\ local' = [local EXCEPT ![t].i = @ + 1]
            /\ IF MoreAttempts(local[t].i + 1)
               THEN /\ result' = [result EXCEPT ![t].FailureReason = "blacklisted_word"]
                    /\ pc' = [pc EXCEPT ![t] = "gen"]
               ELSE /\ result' = [result EXCEPT ![t].FailureReason =
                                                   FinalReason("blacklisted_word")]
                    /\ pc' = [pc EXCEPT ![t] = "done"]
            /\ UNCHANGED lastMessage
       ELSE /\ result' = [result EXCEPT ![t].Success = TRUE,
                                       ![t].Response = local[t].response,
                                       ![t].FailureReason = ""]
            /\ lastMessage' = IF db = "open" THEN local[t].response ELSE lastMessage
            /\ pc' = [pc EXCEPT ![t] = "done"]
            /\ UNCHANGED local
    /\ UNCHANGED <<mgrVars, auxVars, Channel, db, mu, msgCounter, transitions, stateCounter, fileExists,
                   configVars, args, crashed,
                   calls, eligible, triggers, ordinal, genCalls, lastOutput, learned, edits>>

(***************************************************************************)
(* Administrative operations on the brain and on the blacklist             *)
(***************************************************************************)
\* Brain.DeleteTransition
DeleteTransition(triple) ==
    /\ ~crashed
    /\ edits < MaxEdits
    /\ mu = "free"
    /\ IF db = "nil"
       THEN crashed' = TRUE /\ UNCHANGED transitions
       ELSE /\ transitions' = IF db = "open" THEN DeleteRow(transitions, triple)
                              ELSE transitions
            /\ UNCHANGED crashed
    /\ edits' = edits + 1
    /\ UNCHANGED <<mgrVars, auxVars, Channel, db, mu, msgCounter, stateCounter, lastMessage, fileExists,
                   configVars, callVars,
                   calls, eligible, triggers, ordinal, genCalls, lastOutput,
                   checkedBlacklist, learned>>

UpdateTransitionCountMutant(triple, count) ==
    /\ ~crashed
    /\ edits < MaxEdits
    /\ mu = "free"
    /\ transitions' = UpdateRow(transitions, triple, count)
    /\ edits' = edits + 1
    /\ UNCHANGED <<mgrVars, auxVars, Channel, db, mu, msgCounter, stateCounter, lastMessage, fileExists,
                   configVars, callVars, crashed,
                   calls, eligible, triggers, ordinal, genCalls, lastOutput,
                   checkedBlacklist, learned>>

\* Brain.UpdateTransitionCount
UpdateTransitionCount(triple, count) ==
    IF count < 1
    THEN DeleteTransition(triple)
    ELSE /\ ~crashed
         /\ edits < MaxEdits
         /\ mu = "free"
         /\ IF db = "nil"
            THEN crashed' = TRUE /\ UNCHANGED transitions
            ELSE /\ transitions' = IF db = "open" THEN UpdateRow(transitions, triple, count)
                                   ELSE transitions
                 /\ UNCHANGED crashed
         /\ edits' = edits + 1
         /\ UNCHANGED <<mgrVars, auxVars, Channel, db, mu, msgCounter, stateCounter, lastMessage, fileExists,
                        configVars, callVars,
                        calls, eligible, triggers, ordinal, genCalls, lastOutput,
                        checkedBlacklist, learned>>

\* Brain.Delete: the handle is closed and set to nil, the files are removed
Delete ==
    /\ ~crashed
    /\ mu = "free"
    /\ db' = "nil"
    /\ fileExists' = FALSE
    /\ transitions' = EmptyStore
    /\ stateCounter' = <<>>
    /\ lastMessage' = <<>>
    /\ UNCHANGED <<mgrVars, auxVars, Channel, mu, msgCounter, configVars, callVars, crashed, historyVars>>

\* the counter initDB loads: the row msg_counter of table state, or the zero
\* value of the field when the row is absent
LoadCounterMutant(row) == 0

LoadCounter(row) == IF row = <<>> THEN 0 ELSE row[1]

\* Manager.RemoveBrain followed by Manager.GetBrain for the brain's channel:
\* brain.Close() without the brain's lock and the eviction, then NewBrain on
\* the same file, with a new mutex and the counter initDB loads.  A call in
\* flight finishes on the evicted Brain, whose closed handle makes learn,
\* saveCounter, saveLastMessage and Generate fail without effect.
RemoveBrainGetBrain ==
    /\ ~crashed
    /\ db = "open"
    /\ db' = "open"
    /\ mu' = "free"
    /\ msgCounter' = LoadCounter(stateCounter)
    /\ pc' = [t \in Threads |-> IF pc[t] = "idle" THEN "idle" ELSE "done"]
    /\ UNCHANGED <<mgrVars, auxVars, Channel, transitions, stateCounter, lastMessage, fileExists,
                   configVars, args, local, result, crashed, historyVars>>

\* Config.AddBlacklistedWord
AddBlacklistedWord(word) ==
    /\ ~crashed
    /\ blacklist' = blacklist \cup {ToLower(word)}
    /\ UNCHANGED <<mgrVars, auxVars, brainVars, userBlacklist, channelInterval, messageInterval,
                   channelMessages, callVars, crashed, historyVars>>

\* Config.RemoveBlacklistedWord
RemoveBlacklistedWord(word) ==
    /\ ~crashed
    /\ blacklist' = blacklist \ {ToLower(word)}
    /\ UNCHANGED <<mgrVars, auxVars, brainVars, userBlacklist, channelInterval, messageInterval,
                   channelMessages, callVars, crashed, historyVars>>

\* the clamp of SetChannelMessageInterval
Clamp(interval) ==
    IF interval < 1 THEN 1 ELSE IF interval > 100 THEN 100 ELSE interval

\* Config.SetChannelMessageInterval: the clamped value is written to the
\* channel's row
SetChannelMessageInterval(interval) ==
    /\ ~crashed
    /\ channelInterval' = Clamp(interval)
    /\ UNCHANGED <<mgrVars, auxVars, brainVars, blacklist, userBlacklist, messageInterval,
                   channelMessages, callVars, crashed, historyVars>>

\* Config.SetMessageInterval: strconv.Itoa(interval) is stored as it is, and
\* GetMessageInterval reads it back with Atoi
SetMessageInterval(interval) ==
    /\ ~crashed
    /\ messageInterval' = interval
    /\ UNCHANGED <<mgrVars, auxVars, brainVars, blacklist, userBlacklist, channelInterval,
                   channelMessages, callVars, crashed, historyVars>>

(***************************************************************************)
(* Maintenance of a brain: Clean and Erase                                 *)
(***************************************************************************)
\* SQL LOWER(): only the ASCII letters are folded
LowerASCII(s) == [i \in 1..Len(s) |-> IF s[i] \in 65..90 THEN s[i] + 32 ELSE s[i]]

\* SQL LIKE without ESCAPE: % matches any run of characters, _ any one
\* character, ASCII letters match without regard to case
RECURSIVE LikeFrom(_, _, _, _)
LikeFrom(s, i, pattern, j) ==
    IF j > Len(pattern) THEN i > Len(s)
    ELSE IF pattern[j] = 37
         THEN \E k \in i..(Len(s) + 1) : LikeFrom(s, k, pattern, j + 1)
    ELSE IF i > Len(s) THEN FALSE
    ELSE IF pattern[j] = 95 \/ LowerASCII(<<pattern[j]>>) = LowerASCII(<<s[i]>>)
         THEN LikeFrom(s, i + 1, pattern, j + 1)
    ELSE FALSE

Like(s, pattern) == LikeFrom(s, 1, pattern, 1)

\* WHERE LOWER(word1) LIKE ? OR LOWER(word2) LIKE ? OR LOWER(next_word) LIKE ?
\* with pattern = "%" + strings.ToLower(word) + "%"
MatchesWord(triple, word) ==
    \E k \in 1..3 : Like(LowerASCII(triple[k]), <<37>> \o ToLower(word) \o <<37>>)

\* WHERE (LOWER(word1) = ? AND LOWER(word2) = ?)
\*    OR (LOWER(word2) = ? AND LOWER(next_word) = ?)
MatchesPair(triple, w1, w2) ==
    \/ (LowerASCII(triple[1]) = w1 /\ LowerASCII(triple[2]) = w2)
    \/ (LowerASCII(triple[2]) = w1 /\ LowerASCII(triple[3]) = w2)

\* the rows the DELETE statements of one blacklist entry remove
CleanMatches(triple, word) ==
    LET words == Fields(word)
    IN  IF Len(words) >= 2
        THEN \E i \in 1..(Len(words) - 1) :
                 MatchesPair(triple, ToLower(words[i]), ToLower(words[i + 1]))
        ELSE MatchesWord(triple, word)

\* the loop of Clean over the blacklist: <<store, rowsRemoved>> after the
\* entries of todo, each DELETE working on what the earlier ones left
RECURSIVE CleanFrom(_, _, _)
CleanFrom(store, todo, removed) ==
    IF todo = {} THEN <<store, removed>>
    ELSE LET word == CHOOSE w \in todo : TRUE
             gone == {t \in DOMAIN store : CleanMatches(t, word)}
         IN  CleanFrom([t \in DOMAIN store \ gone |-> store[t]], todo \ {word},
                       removed + Cardinality(gone))

\* Brain.Clean
Clean ==
    /\ ~crashed
    /\ IF blacklist = {}
       THEN /\ rowsRemoved' = <<0>>
            /\ UNCHANGED <<transitions, crashed>>
       ELSE /\ mu = "free"
            /\ IF db = "nil"
               THEN /\ crashed' = TRUE
                    /\ UNCHANGED <<transitions, rowsRemoved>>
               ELSE /\ UNCHANGED crashed
                    /\ LET cleaned == IF db = "open" THEN CleanFrom(transitions, blacklist, 0)
                                      ELSE <<transitions, 0>>
                       IN  /\ transitions' = cleaned[1]
                           /\ rowsRemoved' = <<cleaned[2]>>
    /\ UNCHANGED <<mgrVars, Channel, db, mu, msgCounter, stateCounter, lastMessage,
                   fileExists, configVars, callVars, historyVars,
                   eraseErr, globalVars, pureVars, otherVars, rngVars, clientVars>>

\* containsNonASCII: a rune above 127 that is no emoji
containsNonASCIIMutant(s) == \E i \in 1..Len(s) : s[i] > 127

containsNonASCII(s) == \E i \in 1..Len(s) : s[i] > 127 /\ ~isEmoji(s[i])

\* the rows CleanNonASCII collects in toDelete: loops first, then rows with
\* a word that containsNonASCII
ToDelete(store) ==
    { t \in DOMAIN store :
        \/ (t[1] = t[2] /\ t[2] = t[3])
        \/ containsNonASCII(t[1]) \/ containsNonASCII(t[2]) \/ containsNonASCII(t[3]) }

\* Brain.CleanNonASCII on an open store: the store left and rowsRemoved;
\* each row of toDelete is deleted by its rowid
CleanNonASCIIFrom(store) ==
    <<[t \in DOMAIN store \ ToDelete(store) |-> store[t]], Cardinality(ToDelete(store))>>

\* Brain.CleanNonASCII, under the write lock; a failed query returns 0
CleanNonASCII ==
    /\ ~crashed
    /\ mu = "free"
    /\ IF db = "nil"
       THEN /\ crashed' = TRUE
            /\ UNCHANGED <<transitions, rowsRemoved>>
       ELSE /\ UNCHANGED crashed
            /\ LET cleaned == IF db = "open" THEN CleanNonASCIIFrom(transitions)
                              ELSE <<transitions, 0>>
               IN  /\ transitions' = cleaned[1]
                   /\ rowsRemoved' = <<cleaned[2]>>
    /\ UNCHANGED <<mgrVars, Channel, db, mu, msgCounter, stateCounter, lastMessage,
                   fileExists, configVars, callVars, historyVars,
                   eraseErr, globalVars, pureVars, otherVars, rngVars, clientVars>>

\* the tables initDB creates in a brain's database
BrainTables == { "transitions", "state" }

\* the tables the statements of Erase name, in order
EraseTables == << "markov_chain", "stats", "stats" >>

\* Brain.Erase: each statement returns an error when its table does not
\* exist or the handle is closed, and Erase returns the first error; no
\* statement names transitions or state, and msgCounter is not assigned
Erase ==
    /\ ~crashed
    /\ mu = "free"
    /\ IF db = "nil"
       THEN /\ crashed' = TRUE
            /\ UNCHANGED eraseErr
       ELSE /\ UNCHANGED crashed
            /\ eraseErr' = IF db = "open" /\ \A i \in 1..Len(EraseTables) :
                                                EraseTables[i] \in BrainTables
                           THEN "nil" ELSE "error"
    /\ UNCHANGED <<mgrVars, brainVars, configVars, callVars, historyVars,
                   rowsRemoved, globalVars, pureVars, otherVars, rngVars, clientVars>>

\* the stores GenerateGlobal queries: this brain's, which answers no row
\* when its handle is closed, and those of the other brains of the snapshot
Snapshot ==
    <<IF db = "open" THEN transitions ELSE EmptyStore>> \o
    [k \in 1..Len(others) |-> others[k].transitions]

(***************************************************************************)
(* Manager.GenerateGlobal over a snapshot that holds this brain: every     *)
(* query on brain.db is one step, and none of them takes the brain's lock  *)
(***************************************************************************)
MaxOthers == 1         \* Brains of other channels in the registry

\* the snapshot of m.brains under m.mu.RLock()
GlobalBegin ==
    /\ ~crashed
    /\ gg.pc = "idle"
    /\ gg' = [EmptyGlobal EXCEPT !.pc = "seed"]
    /\ UNCHANGED <<mgrVars, brainVars, configVars, callVars, crashed, historyVars,
                   maintVars, gaccess, pureVars, otherVars, rngVars, clientVars>>

\* startBrain.db.QueryRow(SELECT word1, word2 ... ORDER BY RANDOM() LIMIT 1)
GlobalSeed ==
    /\ ~crashed
    /\ gg.pc = "seed"
    /\ \E k \in 1..Len(Snapshot) :
         IF k = 1 /\ db = "nil"
         THEN /\ crashed' = TRUE
              /\ UNCHANGED <<gg, gaccess>>
         ELSE /\ UNCHANGED crashed
              /\ gaccess' = IF k = 1 THEN [lock |-> "none", holder |-> mu] ELSE gaccess
              /\ IF DOMAIN Snapshot[k] = {}
                 THEN gg' = [gg EXCEPT !.pc = "done"]
                 ELSE \E t \in DOMAIN Snapshot[k] :
                        gg' = [gg EXCEPT !.pc = "walk", !.word1 = t[1], !.word2 = t[2],
                                         !.result = <<t[1], t[2]>>]
    /\ UNCHANGED <<mgrVars, brainVars, configVars, callVars, historyVars,
                   maintVars, pureVars, otherVars, rngVars, clientVars>>

\* one iteration of the loop: the query on each brain of the snapshot, the
\* weighted selection and the append; or the end of the loop
GlobalQuery ==
    /\ ~crashed
    /\ gg.pc = "walk"
    /\ IF gg.i >= MaxWords
       THEN /\ gg' = [gg EXCEPT !.pc = "done"]
            /\ UNCHANGED <<crashed, gaccess>>
       ELSE IF db = "nil"
       THEN /\ crashed' = TRUE
            /\ UNCHANGED <<gg, gaccess>>
       ELSE /\ UNCHANGED crashed
            /\ gaccess' = [lock |-> "none", holder |-> mu]
            /\ LET rows == PoolRows(Snapshot, gg.word1, gg.word2)
               IN  IF rows = <<>>
                   THEN gg' = [gg EXCEPT !.pc = "done"]
                   ELSE \E r \in 0..(TotalWeight(rows) - 1) :
                          LET nextWord == Pick(rows, r)
                          IN  gg' = [gg EXCEPT !.result = Append(@, nextWord),
                                               !.word1 = gg.word2,
                                               !.word2 = nextWord,
                                               !.i = @ + 1]
    /\ UNCHANGED <<mgrVars, brainVars, configVars, callVars, historyVars,
                   maintVars, pureVars, otherVars, rngVars, clientVars>>

GlobalReturnMutant ==
    /\ ~crashed
    /\ gg.pc = "done"
    /\ gg' = EmptyGlobal
    /\ others' = [k \in 1..Len(others) |-> [others[k] EXCEPT !.lastMessage = Join(gg.result)]]
    /\ UNCHANGED <<mgrVars, brainVars, configVars, callVars, crashed, historyVars,
                   maintVars, gaccess, pureVars, rngVars, clientVars>>

\* return strings.Join(result, " "): the caller has the text
GlobalReturn ==
    /\ ~crashed
    /\ gg.pc = "done"
    /\ gg' = EmptyGlobal
    /\ UNCHANGED <<mgrVars, brainVars, configVars, callVars, crashed, historyVars,
                   maintVars, gaccess, pureVars, otherVars, rngVars, clientVars>>

GenerateGlobal == GlobalBegin \/ GlobalSeed \/ GlobalQuery \/ GlobalReturn

\* what the database file of another channel holds
OtherBrains ==
    { [ transitions |-> (<<S("day"), S("so"), S("far")>> :> 2) @@
                        (<<S("Bad"), S("day"), S("off")>> :> 1),
        msgCounter |-> 1, stateCounter |-> <<1>>, lastMessage |-> S("so far") ],
      [ transitions |-> EmptyStore,
        msgCounter |-> 0, stateCounter |-> <<>>, lastMessage |-> <<>> ] }

\* Manager.GetBrain for another channel: NewBrain opens its file and the
\* Brain enters m.brains
GetOtherBrain(brain) ==
    /\ ~crashed
    /\ Len(others) < MaxOthers
    /\ others' = Append(others, brain)
    /\ UNCHANGED <<mgrVars, brainVars, configVars, callVars, crashed, historyVars,
                   maintVars, globalVars, pureVars, rngVars, clientVars>>

(***************************************************************************)
(* Brain.Generate and Manager.GenerateGlobal called by several goroutines:  *)
(* every call of rng.Intn is an interval with an entry and a return.  The   *)
(* registry holds this brain only, so brains[0] and startBrain are it.      *)
(***************************************************************************)
\* the goroutines holding b.mu in read mode: Generate from b.mu.RLock() to
\* its return
Readers == {g \in Threads : gen[g].call = "Generate"}

\* the goroutines inside a call of b.rng.Intn
InRng == {g \in Threads : gen[g].pc \in {"pick", "draw"}}

\* Generate: b.mu.RLock(); readers do not exclude each other
GenerateRLock(g) ==
    /\ ~crashed
    /\ gen[g].pc = "idle"
    /\ mu = "free"
    /\ gen' = [gen EXCEPT ![g] = [EmptyGen EXCEPT !.pc = "seed", !.call = "Generate"]]
    /\ UNCHANGED <<mgrVars, brainVars, configVars, callVars, crashed, historyVars,
                   maintVars, globalVars, pureVars, otherVars, clientVars>>

\* GenerateGlobal: the snapshot, then the entry into
\* brains[0].rng.Intn(len(brains)), with no lock of the brain held
GlobalSnapshot(g) ==
    /\ ~crashed
    /\ gen[g].pc = "idle"
    /\ gen' = [gen EXCEPT ![g] = [EmptyGen EXCEPT !.pc = "pick", !.call = "GenerateGlobal"]]
    /\ UNCHANGED <<mgrVars, brainVars, configVars, callVars, crashed, historyVars,
                   maintVars, globalVars, pureVars, otherVars, clientVars>>

\* the return of an rng.Intn call: rand.Rand is not safe for concurrent use,
\* so a call that overlaps another one returns a value or panics
RngReturn(g, next) ==
    \E panic \in (IF InRng \ {g} = {} THEN {FALSE} ELSE BOOLEAN) :
        IF panic
        THEN crashed' = TRUE /\ UNCHANGED gen
        ELSE crashed' = crashed /\ gen' = [gen EXCEPT ![g] = next]

\* GenerateGlobal: brains[0].rng.Intn(len(brains)) returns, startBrain is set
GlobalPickBrain(g) ==
    /\ ~crashed
    /\ gen[g].pc = "pick"
    /\ RngReturn(g, [gen[g] EXCEPT !.pc = "seed"])
    /\ UNCHANGED <<mgrVars, brainVars, configVars, callVars, historyVars,
                   maintVars, globalVars, pureVars, otherVars, clientVars>>

\* the seed query of either function; an error returns ""
GenerateSeed(g) ==
    /\ ~crashed
    /\ gen[g].pc = "seed"
    /\ IF db = "nil"
       THEN crashed' = TRUE /\ UNCHANGED gen
       ELSE /\ UNCHANGED crashed
            /\ IF db = "closed" \/ DOMAIN transitions = {}
               THEN gen' = [gen EXCEPT ![g] = EmptyGen]
               ELSE \E t \in DOMAIN transitions :
                      gen' = [gen EXCEPT ![g].pc = "query", ![g].word1 = t[1],
                                         ![g].word2 = t[2]]
    /\ UNCHANGED <<mgrVars, brainVars, configVars, callVars, historyVars,
                   maintVars, globalVars, pureVars, otherVars, clientVars>>

\* the loop condition and the candidate query: the function returns, or
\* enters rng.Intn(totalWeight)
GenerateQuery(g) ==
    /\ ~crashed
    /\ gen[g].pc = "query"
    /\ IF gen[g].i < MaxWords /\ db = "nil"
       THEN crashed' = TRUE /\ UNCHANGED gen
       ELSE /\ UNCHANGED crashed
            /\ IF \/ gen[g].i >= MaxWords
                  \/ db = "closed"
                  \/ Candidates(transitions, gen[g].word1, gen[g].word2) = {}
               THEN gen' = [gen EXCEPT ![g] = EmptyGen]
               ELSE gen' = [gen EXCEPT ![g].pc = "draw"]
    /\ UNCHANGED <<mgrVars, brainVars, configVars, callVars, historyVars,
                   maintVars, globalVars, pureVars, otherVars, clientVars>>

\* rng.Intn(totalWeight) returns; the selection loop and the shift of the
\* context
GenerateDraw(g) ==
    /\ ~crashed
    /\ gen[g].pc = "draw"
    /\ \E nextWord \in Selectable(transitions, gen[g].word1, gen[g].word2) :
         RngReturn(g, [gen[g] EXCEPT !.pc = "query", !.word1 = gen[g].word2,
                                     !.word2 = nextWord, !.i = @ + 1])
    /\ UNCHANGED <<mgrVars, brainVars, configVars, callVars, historyVars,
                   maintVars, globalVars, pureVars, otherVars, clientVars>>

(***************************************************************************)
(* Client.ConnectWithRetry.  Durations are in seconds; within the bounds    *)
(* below the product baseDelay * 2^(attempt-1) stays far from the width of  *)
(* time.Duration.  c.conn is a net.Conn: "nil" is the nil interface,        *)
(* "typednil" the interface holding the nil *tls.Conn that a failed         *)
(* tls.DialWithDialer returns, "conn" a connection.                         *)
(***************************************************************************)
MaxRetries == 3        \* largest maxRetries argument

\* the waits of one retry: baseDelay * 2^(attempt-1), capped at 60 seconds
Delay(baseDelay, attempt) ==
    LET delay == baseDelay * 2^(attempt - 1)
    IN  IF delay > 60 THEN 60 ELSE delay

\* entry: c.mu.Lock(), the configuration check, attempt := 0
ConnectBegin(maxRetries, baseDelay, configured) ==
    /\ ~crashed
    /\ client.pc = "idle"
    /\ client' = IF configured
                 THEN [client EXCEPT !.pc = "dial", !.maxRetries = maxRetries,
                                     !.baseDelay = baseDelay]
                 ELSE [client EXCEPT !.pc = "done", !.maxRetries = maxRetries,
                                     !.baseDelay = baseDelay, !.ret = "error"]
    /\ UNCHANGED <<mgrVars, brainVars, configVars, callVars, crashed, historyVars,
                   maintVars, globalVars, pureVars, otherVars, rngVars>>

\* attempt > 0: the delay is computed and slept with c.mu released
ConnectWait ==
    /\ ~crashed
    /\ client.pc = "wait"
    /\ client' = [client EXCEPT !.pc = "dial",
                                !.waits = Append(@, Delay(client.baseDelay, client.attempt))]
    /\ UNCHANGED <<mgrVars, brainVars, configVars, callVars, crashed, historyVars,
                   maintVars, globalVars, pureVars, otherVars, rngVars>>

\* c.conn, err = tls.DialWithDialer(...): break on success; on failure the
\* nil *tls.Conn is stored in c.conn, and the loop goes on while
\* attempt <= maxRetries
ConnectDial(ok) ==
    /\ ~crashed
    /\ client.pc = "dial"
    /\ client' = IF ok
                 THEN [client EXCEPT !.pc = "after", !.dials = @ + 1, !.conn = "conn"]
                 ELSE [client EXCEPT !.pc = IF client.attempt + 1 <= client.maxRetries
                                            THEN "wait" ELSE "after",
                                     !.dials = @ + 1, !.conn = "typednil",
                                     !.attempt = @ + 1]
    /\ UNCHANGED <<mgrVars, brainVars, configVars, callVars, crashed, historyVars,
                   maintVars, globalVars, pureVars, otherVars, rngVars>>

\* after the loop: the test c.conn == nil, then the writer, the four
\* commands, running and onConnect.  The first sendRaw flushes the writer
\* into c.conn; on the nil *tls.Conn that write dereferences nil and panics
ConnectFinish ==
    /\ ~crashed
    /\ client.pc = "after"
    /\ client' = IF client.conn = "nil"
                 THEN [client EXCEPT !.pc = "done", !.ret = "error"]
                 ELSE IF client.conn = "typednil"
                 THEN [client EXCEPT !.pc = "done", !.ret = "panic", !.writer = TRUE]
                 ELSE [client EXCEPT !.pc = "done", !.ret = "nil", !.writer = TRUE,
                                     !.sent = <<"PASS", "NICK", "CAP REQ", "JOIN">>,
                                     !.running = TRUE, !.onConnect = @ + 1]
    /\ UNCHANGED <<mgrVars, brainVars, configVars, callVars, crashed, historyVars,
                   maintVars, globalVars, pureVars, otherVars, rngVars>>

(***************************************************************************)
(* Direct applications: a function of the program applied to arguments     *)
(* drawn from a bounded set, once in a behaviour, its value kept for       *)
(* inspection                                                              *)
(***************************************************************************)
MaxCount == 3          \* largest count of a row in a directly built store

\* candidate rows in every order: distinct tokens, counts 1..MaxCount, and
\* the rows {x: 9, y: 1}
PickTokens == { S("x"), S("y"), S("z") }

PickInputs ==
    {<<>>} \cup
    { <<<<a, m>>>> : a \in PickTokens, m \in 1..MaxCount } \cup
    { <<<<a, m>>, <<b, n>>>> :
        a \in PickTokens, b \in PickTokens, m \in 1..MaxCount, n \in 1..MaxCount } \cup
    { <<<<S("x"), 9>>, <<S("y"), 1>>>>, <<<<S("y"), 1>>, <<S("x"), 9>>>> }

\* r := rng.Intn(totalWeight) and the selection loop, for every draw
ApplyPick(rows) ==
    /\ pureFn = "none"
    /\ \A i, j \in 1..Len(rows) : rows[i][1] = rows[j][1] => i = j
    /\ pureFn' = "Pick"
    /\ pureIn' = rows
    /\ pureOut' = [r \in 0..(TotalWeight(rows) - 1) |-> Pick(rows, r)]
    /\ UNCHANGED <<mgrVars, brainVars, configVars, callVars, crashed, historyVars,
                   maintVars, globalVars, otherVars, rngVars, clientVars>>

\* stores over one context (x, y) with the next words za and zb, each
\* absent or with a count in 1..MaxCount
PoolTriples == { <<S("x"), S("y"), S("za")>>, <<S("x"), S("y"), S("zb")>> }

PoolStores ==
    UNION { [rows -> 1..MaxCount] : rows \in SUBSET PoolTriples }

\* the snapshots of GenerateGlobal: one to three brains
PoolInputs ==
    { <<a>> : a \in PoolStores } \cup
    { <<a, b>> : a \in PoolStores, b \in PoolStores } \cup
    { <<a, b, EmptyStore>> : a \in PoolStores, b \in PoolStores }

\* one iteration of GenerateGlobal's loop for the context (x, y): the pooled
\* rows and the selection, for every draw
ApplyPoolPick(stores) ==
    /\ pureFn = "none"
    /\ pureFn' = "PoolPick"
    /\ pureIn' = stores
    /\ LET rows == PoolRows(stores, S("x"), S("y"))
       IN  pureOut' = [r \in 0..(TotalWeight(rows) - 1) |-> Pick(rows, r)]
    /\ UNCHANGED <<mgrVars, brainVars, configVars, callVars, crashed, historyVars,
                   maintVars, globalVars, otherVars, rngVars, clientVars>>

\* the loop of Generate from the starting pair (x, y), two iterations long
ApplyWalk(store) ==
    /\ pureFn = "none"
    /\ pureFn' = "Walk"
    /\ pureIn' = store
    /\ pureOut' = Walk(store, <<S("x"), S("y")>>, S("x"), S("y"), 0, 2)
    /\ UNCHANGED <<mgrVars, brainVars, configVars, callVars, crashed, historyVars,
                   maintVars, globalVars, otherVars, rngVars, clientVars>>

MaxGenerate == 3       \* largest maxWords of a directly applied Generate

\* rows that form the cycle x y x y ..., and a row that leaves it
CycleTriples ==
    { <<S("x"), S("y"), S("x")>>, <<S("y"), S("x"), S("y")>>,
      <<S("y"), S("x"), S("za")>> }

\* Generate(maxWords) on a store: every text it can return
ApplyGenerate(store, maxWords) ==
    /\ pureFn = "none"
    /\ pureFn' = "Generate"
    /\ pureIn' = <<store, maxWords>>
    /\ pureOut' = Generate(store, maxWords)
    /\ UNCHANGED <<mgrVars, brainVars, configVars, callVars, crashed, historyVars,
                   maintVars, globalVars, otherVars, rngVars, clientVars>>

\* stores with two context pairs, (x, y) with up to two next words and
\* (y, z) with one
SeedTriples == PoolTriples \cup { <<S("y"), S("z"), S("x")>> }

SeedStores ==
    UNION { [rows -> 1..MaxCount] : rows \in SUBSET SeedTriples }

\* SELECT word1, word2 FROM transitions ORDER BY RANDOM() LIMIT 1: every row
\* gets a random key and the row with the least key is returned, so the
\* draws are the rows, each as likely as another; the value is the pair
\* scanned from the drawn row
SeedOf(store) == [t \in DOMAIN store |-> <<t[1], t[2]>>]

\* the seed query of Generate, for every draw
ApplySeed(store) ==
    /\ pureFn = "none"
    /\ pureFn' = "Seed"
    /\ pureIn' = store
    /\ pureOut' = SeedOf(store)
    /\ UNCHANGED <<mgrVars, brainVars, configVars, callVars, crashed, historyVars,
                   maintVars, globalVars, otherVars, rngVars, clientVars>>

\* rows whose words hold the character | (124), and rows without it
StatsTriples ==
    { <<S("a") \o <<124>> \o S("b"), S("c"), S("x")>>,
      <<S("a"), S("b") \o <<124>> \o S("c"), S("x")>>,
      <<S("a"), S("b"), S("x")>>,
      <<S("a"), S("b"), S("y")>>,
      <<S("b"), S("a"), S("x")>> }

StatsStores ==
    UNION { [rows -> {1, MaxCount}] : rows \in SUBSET StatsTriples }

\* SELECT COUNT(DISTINCT word1 || '|' || word2) and SELECT COUNT(*)
GetStats(store) ==
    [ UniquePairs |-> Cardinality({ t[1] \o <<124>> \o t[2] : t \in DOMAIN store }),
      TotalEntries |-> Cardinality(DOMAIN store) ]

ApplyGetStats(store) ==
    /\ pureFn = "none"
    /\ pureFn' = "GetStats"
    /\ pureIn' = store
    /\ pureOut' = GetStats(store)
    /\ UNCHANGED <<mgrVars, brainVars, configVars, callVars, crashed, historyVars,
                   maintVars, globalVars, otherVars, rngVars, clientVars>>

\* rows of a database written before the admission filter existed: a
\* three-way loop, a word with a non-ASCII letter, a word that is an emoji,
\* a word with the control character 1, and a plain row
LegacyTriples ==
    { <<S("go"), S("go"), S("go")>>,
      <<S("caf") \o <<\H00E9>>, S("is"), S("so")>>,
      <<S("go"), <<\H1F600>>, S("ok")>>,
      <<<<1>> \o S("go"), S("so"), S("ok")>>,
      <<S("Bad"), S("day"), S("so")>> }

LegacyStores ==
    UNION { [rows -> {1, MaxCount}] : rows \in SUBSET LegacyTriples }

ApplyCleanNonASCII(store) ==
    /\ pureFn = "none"
    /\ pureFn' = "CleanNonASCII"
    /\ pureIn' = store
    /\ pureOut' = CleanNonASCIIFrom(store)
    /\ UNCHANGED <<mgrVars, brainVars, configVars, callVars, crashed, historyVars,
                   maintVars, globalVars, otherVars, rngVars, clientVars>>

\* texts and blacklists for containsBlacklistedWord
FilterTexts ==
    { S("this is bad"), S("badger"), S("that is a bad word combo"),
      S("This is BAD"), S("a Bad Word"), S("bad  word"), S("my badword"), S("") }

FilterEntries == { S("bad"), S("bad word"), S("BAD WORD"), S("is") }

ApplyContainsBlacklistedWord(text, words) ==
    /\ pureFn = "none"
    /\ pureFn' = "containsBlacklistedWord"
    /\ pureIn' = <<text, words>>
    /\ pureOut' = containsBlacklistedWord(text, words)
    /\ UNCHANGED <<mgrVars, brainVars, configVars, callVars, crashed, historyVars,
                   maintVars, globalVars, otherVars, rngVars, clientVars>>

(***************************************************************************)
(* Manager: the registry of brains                                         *)
(***************************************************************************)
MaxBrains == 3         \* Brains constructed in one behaviour
MaxEvictions == 1      \* evictions of one key in one behaviour

\* channel names as callers write them
ChannelNames == { S("Foo"), S("foo"), S("FOO"), S("bar") }

Keys == {ToLower(c) : c \in ChannelNames}

\* the re-check of GetBrain after m.mu.Lock()
DoubleCheckMutant(brains, channel) == FALSE

DoubleCheck(brains, channel) == channel \in DOMAIN brains

\* m.brains[channel] = brain
Store(brains, channel, brain) ==
    [k \in DOMAIN brains \cup {channel} |-> IF k = channel THEN brain ELSE brains[k]]

\* delete(m.brains, channel)
Evict(brains, channel) == [k \in DOMAIN brains \ {channel} |-> brains[k]]

\* GetBrain, first block: lower-casing and the lookup under m.mu.RLock()
GetBrainFast(t, channel) ==
    /\ gpc[t] = "idle"
    /\ gchannel' = [gchannel EXCEPT ![t] = channel]
    /\ LET key == ToLower(channel)
       IN  IF key \in DOMAIN registry
           THEN /\ gpc' = [gpc EXCEPT ![t] = "done"]
                /\ gbrain' = [gbrain EXCEPT ![t] = registry[key]]
                /\ epoch' = [epoch EXCEPT ![t] = evictions[key]]
           ELSE /\ gpc' = [gpc EXCEPT ![t] = "miss"]
                /\ UNCHANGED <<gbrain, epoch>>
    /\ UNCHANGED <<registry, nextBrain, files, deleter, viaLock, constructed, evictions>>
    /\ UNCHANGED <<brainVars, configVars, callVars, crashed, historyVars, auxVars>>

GetBrainSlowMutant(t) ==
    /\ gpc[t] = "miss"
    /\ gpc' = [gpc EXCEPT ![t] = "done"]
    /\ viaLock' = [viaLock EXCEPT ![t] = TRUE]
    /\ LET key == ToLower(gchannel[t])
       IN  /\ epoch' = [epoch EXCEPT ![t] = evictions[key]]
           /\ IF DoubleCheck(registry, key)
              THEN /\ gbrain' = [gbrain EXCEPT ![t] = registry[key]]
                   /\ UNCHANGED <<registry, nextBrain, files, constructed>>
              ELSE \E ok \in (IF nextBrain < MaxBrains THEN BOOLEAN ELSE {FALSE}) :
                     IF ok
                     THEN /\ nextBrain' = nextBrain + 1
                          /\ registry' = Store(registry, key, nextBrain + 1)
                          /\ files' = files \cup {key}
                          /\ gbrain' = [gbrain EXCEPT ![t] = nextBrain + 1]
                          /\ constructed' = [constructed EXCEPT ![key] = @ \cup {nextBrain + 1}]
                     ELSE /\ gbrain' = [gbrain EXCEPT ![t] = 0]
                          /\ registry' = Store(registry, key, 0)
                          /\ UNCHANGED <<nextBrain, files, constructed>>
    /\ UNCHANGED <<gchannel, deleter, evictions>>
    /\ UNCHANGED <<brainVars, configVars, callVars, crashed, historyVars, auxVars>>

\* GetBrain, second block, under m.mu.Lock(): the re-check, NewBrain (which
\* may fail) and the insertion
GetBrainSlow(t) ==
    /\ gpc[t] = "miss"
    /\ gpc' = [gpc EXCEPT ![t] = "done"]
    /\ viaLock' = [viaLock EXCEPT ![t] = TRUE]
    /\ LET key == ToLower(gchannel[t])
       IN  /\ epoch' = [epoch EXCEPT ![t] = evictions[key]]
           /\ IF DoubleCheck(registry, key)
              THEN /\ gbrain' = [gbrain EXCEPT ![t] = registry[key]]
                   /\ UNCHANGED <<registry, nextBrain, files, constructed>>
              ELSE \E ok \in (IF nextBrain < MaxBrains THEN BOOLEAN ELSE {FALSE}) :
                     IF ok
                     THEN /\ nextBrain' = nextBrain + 1
                          /\ registry' = Store(registry, key, nextBrain + 1)
                          /\ files' = files \cup {key}
                          /\ gbrain' = [gbrain EXCEPT ![t] = nextBrain + 1]
                          /\ constructed' = [constructed EXCEPT ![key] = @ \cup {nextBrain + 1}]
                     ELSE /\ gbrain' = [gbrain EXCEPT ![t] = 0]
                          /\ UNCHANGED <<registry, nextBrain, files, constructed>>
    /\ UNCHANGED <<gchannel, deleter, evictions>>
    /\ UNCHANGED <<brainVars, configVars, callVars, crashed, historyVars, auxVars>>

\* the caller has received gbrain[t]
GetBrainReturn(t) ==
    /\ gpc[t] = "done"
    /\ gpc' = [gpc EXCEPT ![t] = "idle"]
    /\ gchannel' = [gchannel EXCEPT ![t] = <<>>]
    /\ gbrain' = [gbrain EXCEPT ![t] = 0]
    /\ viaLock' = [viaLock EXCEPT ![t] = FALSE]
    /\ epoch' = [epoch EXCEPT ![t] = 0]
    /\ UNCHANGED <<registry, nextBrain, files, deleter, constructed, evictions>>
    /\ UNCHANGED <<brainVars, configVars, callVars, crashed, historyVars, auxVars>>

\* Manager.RemoveBrain: the Brain is closed and evicted, its file is kept
RemoveBrain(channel) ==
    LET key == ToLower(channel)
    IN  /\ key \in DOMAIN registry
        /\ evictions[key] < MaxEvictions
        /\ registry' = Evict(registry, key)
        /\ evictions' = [evictions EXCEPT ![key] = @ + 1]
        /\ constructed' = [constructed EXCEPT ![key] = {}]
        /\ UNCHANGED <<nextBrain, files, gpc, gchannel, gbrain, deleter, viaLock, epoch>>
        /\ UNCHANGED <<brainVars, configVars, callVars, crashed, historyVars, auxVars>>

\* Manager.DeleteBrain, the block under m.mu.Lock(): the eviction
DeleteBrainEvict(channel) ==
    LET key == ToLower(channel)
    IN  /\ deleter = <<>>
        /\ evictions[key] < MaxEvictions
        /\ deleter' = <<key>>
        /\ IF key \in DOMAIN registry
           THEN /\ registry' = Evict(registry, key)
                /\ constructed' = [constructed EXCEPT ![key] = {}]
           ELSE UNCHANGED <<registry, constructed>>
        /\ evictions' = [evictions EXCEPT ![key] = @ + 1]
        /\ UNCHANGED <<nextBrain, files, gpc, gchannel, gbrain, viaLock, epoch>>
        /\ UNCHANGED <<brainVars, configVars, callVars, crashed, historyVars, auxVars>>

\* Manager.DeleteBrain after the unlock: brain.Delete(), or os.Remove of the
\* file of a channel that was not loaded
DeleteBrainRemove ==
    /\ deleter # <<>>
    /\ files' = files \ {deleter[1]}
    /\ deleter' = <<>>
    /\ UNCHANGED <<registry, nextBrain, gpc, gchannel, gbrain, viaLock, constructed,
                   evictions, epoch>>
    /\ UNCHANGED <<brainVars, configVars, callVars, crashed, historyVars, auxVars>>

(***************************************************************************)
(* Specifications                                                          *)
(***************************************************************************)
\* the texts learn can be called with
LearnTexts ==
    {normalizeASCII(m) :
        m \in Messages \cup PunctuatedMessages \cup {EmojiMessage} \cup ShortMessages}

\* per-channel interval and global value: a channel setting, the global
\* setting, or neither (the default applies)
IntervalConfigs ==
    {<<c, 0>> : c \in 1..MaxInterval} \cup {<<0, MaxInterval>>, <<0, 0>>}

Init ==
    /\ Channel \in {S("chan"), S("bot")}
    /\ db = "open"
    /\ mu = "free"
    /\ msgCounter = 0
    /\ transitions = EmptyStore
    /\ stateCounter = <<>>
    /\ lastMessage = <<>>
    /\ fileExists = TRUE
    /\ blacklist = {}
    /\ userBlacklist = {S("troll")}
    /\ \E c \in IntervalConfigs : channelInterval = c[1] /\ messageInterval = c[2]
    /\ channelMessages = 0
    /\ pc = [t \in Threads |-> "idle"]
    /\ args = [t \in Threads |-> EmptyArgs]
    /\ local = [t \in Threads |-> EmptyLocal]
    /\ result = [t \in Threads |-> EmptyResult]
    /\ crashed = FALSE
    /\ calls = 0
    /\ eligible = 0
    /\ triggers = 0
    /\ ordinal = [t \in Threads |-> 0]
    /\ genCalls = [t \in Threads |-> 0]
    /\ lastOutput = [t \in Threads |-> <<>>]
    /\ checkedBlacklist = [t \in Threads |-> {}]
    /\ learned = [m \in LearnTexts |-> 0]
    /\ edits = 0
    /\ registry = [k \in {} |-> 0]
    /\ nextBrain = 0
    /\ files = {}
    /\ gpc = [t \in Threads |-> "idle"]
    /\ gchannel = [t \in Threads |-> <<>>]
    /\ gbrain = [t \in Threads |-> 0]
    /\ deleter = <<>>
    /\ viaLock = [t \in Threads |-> FALSE]
    /\ constructed = [k \in Keys |-> {}]
    /\ evictions = [k \in Keys |-> 0]
    /\ epoch = [t \in Threads |-> 0]
    /\ eraseErr = "none"
    /\ rowsRemoved = <<>>
    /\ gg = EmptyGlobal
    /\ gaccess = <<>>
    /\ pureFn = "none"
    /\ pureIn = <<>>
    /\ pureOut = <<>>
    /\ others = <<>>
    /\ gen = [g \in Threads |-> EmptyGen]
    /\ client = EmptyClient

\* one thread delivers the channel's messages
Callers == {"t1"}

ProcessMessageWithInfo(t, inputs) ==
    \/ Begin(t, inputs)
    \/ Learn(t)
    \/ CounterLock(t)
    \/ CounterUnlock(t)
    \/ Attempt(t)
    \/ Check(t)
    \/ Return(t)

Traffic == \E t \in Callers : ProcessMessageWithInfo(t, Inputs)

BlacklistChanges ==
    \/ \E word \in BlacklistWords : AddBlacklistedWord(word)
    \/ \E word \in BlacklistWords : RemoveBlacklistedWord(word)

\* the console edits transitions of the brain the registry holds
TransitionEdits ==
    \/ \E triple \in EditTriples : DeleteTransition(triple)
    \/ \E triple \in EditTriples, count \in EditCounts : UpdateTransitionCount(triple, count)

Next == Traffic \/ BlacklistChanges \/ TransitionEdits

\* live traffic on one brain, with blacklist changes and transition edits
Spec == Init /\ [][Next]_vars

\* the message of the concurrent deliveries
ConcurrentInputs == {<<S("Bad day so"), S("bob")>>}

NextConcurrent ==
    \/ \E t \in Threads : ProcessMessageWithInfo(t, ConcurrentInputs)
    \/ \E word \in BlacklistWords : AddBlacklistedWord(word)

\* several threads deliver messages to the same brain at once
SpecConcurrent == Init /\ [][NextConcurrent]_vars

NextDelete == Traffic \/ BlacklistChanges \/ Delete

\* live traffic on a brain that Manager.DeleteBrain deletes while the
\* delivering thread still holds it
SpecDelete == Init /\ [][NextDelete]_vars

\* the messages delivered while GenerateGlobal runs
GlobalInputs == {<<LongMessage, S("bob")>>}

NextGlobal ==
    \/ \E t \in Callers : ProcessMessageWithInfo(t, GlobalInputs)
    \/ GenerateGlobal

\* live traffic on a brain while another channel's thread runs GenerateGlobal
\* over a snapshot that holds it
SpecGlobal == Init /\ [][NextGlobal]_vars

\* the messages delivered to a brain under maintenance
MaintenanceInputs ==
    { <<S("a Bad c"), S("bob")>>, <<S("my badger is"), S("bob")>>,
      <<S("so bad word x"), S("bob")>> }

\* the entries an administrator adds before cleaning
CleanWords == { S("Bad"), S("bad word"), S("b_d") }

InitMaintenance ==
    Init /\ Channel = S("chan") /\ channelInterval = MaxInterval

NextMaintenance ==
    \/ \E t \in Callers : ProcessMessageWithInfo(t, MaintenanceInputs)
    \/ \E word \in CleanWords : AddBlacklistedWord(word)
    \/ Clean

\* a brain that learns from traffic and is cleaned from the console
SpecMaintenance == InitMaintenance /\ [][NextMaintenance]_vars

NextErase ==
    \/ \E t \in Callers : ProcessMessageWithInfo(t, GlobalInputs)
    \/ Erase

\* a brain that learns from traffic and is erased from the console
SpecErase == Init /\ [][NextErase]_vars

\* the messages learned while the store is edited and cleaned
CountInputs ==
    { <<S("go go go"), S("bob")>>, <<LongMessage, S("bob")>>, <<S("Bad day so"), S("bob")>> }

\* the counts an administrator sends
CountValues == { -1, 0, 1, 3 }

NextCounts ==
    \/ \E t \in Callers : ProcessMessageWithInfo(t, CountInputs)
    \/ \E triple \in EditTriples : DeleteTransition(triple)
    \/ \E triple \in EditTriples, count \in CountValues : UpdateTransitionCount(triple, count)
    \/ \E word \in BlacklistWords : AddBlacklistedWord(word)
    \/ Clean
    \/ CleanNonASCII

\* a brain that learns while its transitions are edited and cleaned
SpecCounts == InitMaintenance /\ [][NextCounts]_vars

NextReload ==
    \/ \E t \in Callers : ProcessMessageWithInfo(t, CountInputs)
    \/ RemoveBrainGetBrain

\* live traffic on a channel whose brain is removed from the registry and
\* obtained again
SpecReload == Init /\ [][NextReload]_vars

\* the values an administrator sends for an interval
IntervalValues == { -1, 0, 1, 100, 101 }

NextInterval ==
    \/ \E t \in Callers : ProcessMessageWithInfo(t, ConcurrentInputs)
    \/ \E interval \in IntervalValues : SetChannelMessageInterval(interval)
    \/ \E interval \in IntervalValues : SetMessageInterval(interval)

\* live traffic while the intervals are set from the console
SpecInterval == Init /\ [][NextInterval]_vars

\* the messages of a channel where links and non-English text are posted
\* among learnable messages
FilteredInputs ==
    { <<S("Bad day so"), S("bob")>>, <<EmojiMessage, S("bob")>>,
      <<S("see a.co now"), S("bob")>>,
      <<S("caf") \o <<\H00E9>> \o S(" is so"), S("bob")>> }

InitFiltered ==
    Init /\ Channel = S("chan") /\ channelInterval = 1

NextFiltered ==
    \/ \E t \in Callers : ProcessMessageWithInfo(t, FilteredInputs)
    \/ GenerateGlobal

\* a brain fed only by ProcessMessageWithInfo, with Generate and
\* GenerateGlobal reading it
SpecFiltered == InitFiltered /\ [][NextFiltered]_vars

NextIsolation ==
    \/ \E t \in Callers : ProcessMessageWithInfo(t, ConcurrentInputs)
    \/ GenerateGlobal
    \/ \E brain \in OtherBrains : GetOtherBrain(brain)

\* traffic on one channel and GenerateGlobal while the registry holds the
\* brain of another channel
SpecIsolation == InitFiltered /\ [][NextIsolation]_vars

\* the messages of a channel whose users type with smart punctuation, and
\* one of them typed in ASCII
NormalizeInputs ==
    {<<m, S("bob")>> : m \in PunctuatedMessages} \cup
    {<<S("it") \o <<39>> \o S("s so go"), S("bob")>>}

NextNormalize == \E t \in Callers : ProcessMessageWithInfo(t, NormalizeInputs)

\* live traffic with Unicode punctuation in the messages
SpecNormalize == Init /\ [][NextNormalize]_vars

NextClient ==
    \/ \E maxRetries \in 0..MaxRetries, baseDelay \in {1, 5, 40}, configured \in BOOLEAN :
           ConnectBegin(maxRetries, baseDelay, configured)
    \/ ConnectWait
    \/ \E ok \in BOOLEAN : ConnectDial(ok)
    \/ ConnectFinish

\* a Client connects to the IRC server, which may refuse any dial
SpecClient == Init /\ [][NextClient]_vars

NextRng ==
    \/ (Readers = {} /\ \E t \in Callers : ProcessMessageWithInfo(t, ConcurrentInputs))
    \/ \E g \in Threads : GenerateRLock(g)
    \/ \E g \in Threads : GlobalSnapshot(g)
    \/ \E g \in Threads : GlobalPickBrain(g)
    \/ \E g \in Threads : GenerateSeed(g)
    \/ \E g \in Threads : GenerateQuery(g)
    \/ \E g \in Threads : GenerateDraw(g)

\* goroutines call Generate and GenerateGlobal on a brain that learns from
\* its channel; a delivery waits while a reader holds the brain's lock
SpecRng == InitFiltered /\ [][NextRng]_vars

NextCleanGenerate ==
    \/ \E t \in Callers :
           ProcessMessageWithInfo(t, {<<m, S("bob")>> :
                                         m \in {S("so bad words x"), S("so bad word x")}})
    \/ \E word \in {S("Bad"), S("bad word")} : AddBlacklistedWord(word)
    \/ Clean

\* a brain that is cleaned from the console and generates afterwards
SpecCleanGenerate == InitMaintenance /\ [][NextCleanGenerate]_vars

NextShort ==
    \E t \in Callers :
        ProcessMessageWithInfo(t, {<<m, S("bob")>> : m \in ShortMessages \cup {S("Bad day so")}})

\* live traffic with messages too short to learn from
SpecShort == Init /\ [][NextShort]_vars

NextPure ==
    \/ \E rows \in PickInputs : ApplyPick(rows)
    \/ \E stores \in PoolInputs : ApplyPoolPick(stores)
    \/ \E store \in PoolStores : ApplyWalk(store)
    \/ \E store \in SeedStores : ApplySeed(store)
    \/ \E store \in StatsStores : ApplyGetStats(store)
    \/ \E store \in LegacyStores : ApplyCleanNonASCII(store)
    \/ \E rows \in SUBSET CycleTriples :
           \E store \in [rows -> {1, MaxCount}], maxWords \in 1..MaxGenerate :
               ApplyGenerate(store, maxWords)
    \/ \E text \in FilterTexts, words \in SUBSET FilterEntries :
           ApplyContainsBlacklistedWord(text, words)

\* the selection, the pooling and the blacklist test applied to arguments
SpecPure == Init /\ [][NextPure]_vars

InitManager == Init /\ Channel = S("chan") /\ channelInterval = 1

NextManager ==
    \/ \E t \in Threads, channel \in ChannelNames : GetBrainFast(t, channel)
    \/ \E t \in Threads : GetBrainSlow(t)
    \/ \E t \in Threads : GetBrainReturn(t)
    \/ \E channel \in ChannelNames : RemoveBrain(channel)
    \/ \E channel \in ChannelNames : DeleteBrainEvict(channel)
    \/ DeleteBrainRemove

\* threads obtain brains from the registry while channels are removed and deleted
SpecManager == InitManager /\ [][NextManager]_vars

(***************************************************************************)
(* Properties                                                              *)
(***************************************************************************)
\* the response interval in force
IntervalInForce == GetChannelMessageInterval(channelInterval, messageInterval)

\* a call whose counter section is over
PastCounter(t) == pc[t] \in {"gen", "check", "done"} /\ ordinal[t] > 0

\* C1: with a constant interval n and the counter starting at 0, the k-th
\* eligible message triggers exactly when k is a multiple of n; otherwise it
\* reports Counter = k mod n, the number of eligible messages since the last
\* trigger, and a triggering message leaves the counter at 0.
C1_CounterThreshold ==
    \A t \in Callers :
        PastCounter(t) =>
            /\ result[t].Triggered = (ordinal[t] % IntervalInForce = 0)
            /\ result[t].Counter = ordinal[t] % IntervalInForce
            /\ msgCounter = ordinal[t] % IntervalInForce

C1_Witness ==
    \E t \in Callers :
        /\ pc[t] = "done"
        /\ IntervalInForce = 2
        /\ ordinal[t] = 2
        /\ result[t].Triggered

\* C2: with k eligible messages processed concurrently, exactly floor(k/n)
\* calls trigger and, whenever the lock is free, the counter is k mod n.
C2_AtomicCounter ==
    mu = "free" =>
        /\ triggers = eligible \div IntervalInForce
        /\ msgCounter = eligible % IntervalInForce

C2_Witness ==
    \E t, u \in Threads :
        /\ t # u
        /\ pc[t] = "gen"
        /\ PastCounter(u)
        /\ ordinal[t] = 2
        /\ ordinal[u] = 1
        /\ IntervalInForce = 2

\* the positions of a text where a not-all-identical triple occurs
TriplePositions(text, triple) ==
    LET w == Fields(text)
    IN  {i \in 1..(Len(w) - 2) :
            /\ <<w[i], w[i + 1], w[i + 2]>> = triple
            /\ ~(w[i] = w[i + 1] /\ w[i + 1] = w[i + 2])}

\* every consecutive triple of the texts learn can be called with
LearnableTriples ==
    UNION { LET w == Fields(m) IN {<<w[i], w[i + 1], w[i + 2]>> : i \in 1..(Len(w) - 2)} :
            m \in LearnTexts }

\* occurrences of each such triple in one text
OccurrencesIn ==
    [m \in LearnTexts |->
        [triple \in LearnableTriples |-> Cardinality(TriplePositions(m, triple))]]

\* occurrences of a triple over all learn calls made so far
RECURSIVE Occurrences(_, _)
Occurrences(texts, triple) ==
    IF texts = {} \/ triple \notin LearnableTriples THEN 0
    ELSE LET m == CHOOSE x \in texts : TRUE
         IN  learned[m] * OccurrencesIn[m][triple]
             + Occurrences(texts \ {m}, triple)

AllTriples == DOMAIN transitions \cup LearnableTriples

\* C3: starting from an empty store and without administrative edits, a
\* triple is stored iff it occurred as a not-all-identical consecutive triple
\* of a learned message, and its count is the number of such occurrences.
C3_TransitionCounts ==
    (edits = 0 /\ db = "open") =>
        \A triple \in AllTriples :
            LET n == Occurrences(LearnTexts, triple)
            IN  IF n = 0 THEN triple \notin DOMAIN transitions
                ELSE triple \in DOMAIN transitions /\ transitions[triple] = n

C3_Witness ==
    /\ edits = 0
    /\ learned[LongMessage] = 2
    /\ transitions[<<S("go"), S("go"), <<\H1F600>>>>] = 4

\* C4: no stored transition has three identical tokens; learning only
\* "go go go" records nothing, and a longer message records its other triples.
C4_NoSelfLoop ==
    /\ \A triple \in DOMAIN transitions : ~(triple[1] = triple[2] /\ triple[2] = triple[3])
    /\ (edits = 0 /\ \A m \in LearnTexts \ {S("go go go")} : learned[m] = 0)
          => transitions = EmptyStore
    /\ (edits = 0 /\ learned[LongMessage] > 0)
          => { <<S("go"), S("go"), <<\H1F600>>>>, <<S("go"), <<\H1F600>>, S("go")>>,
               <<<<\H1F600>>, S("go"), S("go")>> } \subseteq DOMAIN transitions

C4_Witness ==
    /\ learned[S("go go go")] > 0
    /\ learned[LongMessage] > 0
    /\ edits > 0
    /\ <<S("go"), S("go"), <<\H1F600>>>> \in DOMAIN transitions

\* the tokens of a text
Tokens(text) == LET w == Fields(text) IN {w[i] : i \in 1..Len(w)}

\* a text has a blacklisted word as a token or a blacklisted phrase as a
\* substring, letter case ignored
HasBlacklistedContent(text, words) ==
    \E entry \in words :
        IF \E i \in 1..Len(entry) : entry[i] = 32
        THEN \E i, j \in 1..Len(text) : SubSeq(ToLower(text), i, j) = ToLower(entry)
        ELSE ToLower(entry) \in Tokens(ToLower(text))

\* the rejection conditions of a call, as the specification lists them
RejectingInput(a) ==
    \/ (Len(a.message) > 0 /\ a.message[1] = 33)
    \/ ToLower(a.username) = ToLower(a.botUsername)
    \/ ToLower(Channel) = ToLower(a.botUsername)
    \/ ToLower(a.username) \in userBlacklist
    \/ containsLink(a.message)
    \/ \E i \in 1..Len(a.message) : a.message[i] > 127 /\ ~isEmoji(a.message[i])
    \/ HasBlacklistedContent(a.message, blacklist)

\* C5: a call with a rejected message returns at once with Triggered = false
\* and an empty Response, and changes neither the transitions, nor the
\* counter (in memory and persisted), nor the last message, nor the channel's
\* message count.
C5_RejectedNoEffect ==
    [][ \A t \in Threads :
          (pc[t] = "idle" /\ pc'[t] # "idle" /\ RejectingInput(args'[t])) =>
              /\ pc'[t] = "done"
              /\ ~result'[t].Triggered
              /\ result'[t].Response = <<>>
              /\ UNCHANGED <<transitions, msgCounter, stateCounter, lastMessage,
                             channelMessages>> ]_vars

C5_Witness ==
    \E t \in Callers :
        /\ pc[t] = "done"
        /\ ordinal[t] = 0
        /\ args[t].message = S("Bad day so")
        /\ blacklist # {}
        /\ <<S("Bad"), S("day"), S("so")>> \in DOMAIN transitions
        /\ msgCounter > 0

\* C6: a triggered call invokes the generator between 1 and 5 times, goes on
\* only after a failed attempt, ends at the first attempt that is non-empty
\* and passes the blacklist check, stores that text as the last message, and
\* reports Attempts = number of generator invocations; a call that does not
\* trigger invokes no generator and reports Attempts = 0.
C6_Attempts ==
    \A t \in Threads :
        /\ result[t].Attempts = genCalls[t]
        /\ genCalls[t] <= 5
        /\ ~result[t].Triggered => genCalls[t] = 0
        /\ (pc[t] = "done" /\ result[t].Triggered) => genCalls[t] >= 1
        /\ (pc[t] = "done" /\ result[t].Triggered /\ ~result[t].Success) => genCalls[t] = 5
        /\ (pc[t] = "gen" /\ genCalls[t] >= 1) =>
               \/ lastOutput[t] = <<>>
               \/ HasBlacklistedContent(lastOutput[t], checkedBlacklist[t])
        /\ result[t].Success =>
               /\ result[t].Response = lastOutput[t]
               /\ lastOutput[t] # <<>>
               /\ ~HasBlacklistedContent(lastOutput[t], checkedBlacklist[t])

C6_Persisted ==
    \A t \in Threads :
        (~result[t].Success /\ result'[t].Success) => lastMessage' = result'[t].Response

C6_GenerationPhase == []C6_Attempts /\ [][C6_Persisted]_vars

C6_Witness ==
    \E t \in Callers :
        /\ pc[t] = "done"
        /\ result[t].Success
        /\ result[t].Attempts = 3
        /\ lastMessage = result[t].Response

\* C7: a successful result carries a non-empty Response without blacklisted
\* word or phrase under the blacklist read by the recheck of that attempt,
\* and no result carries a Response without Success.
C7_ResponseClean ==
    \A t \in Threads :
        /\ result[t].Success =>
               /\ result[t].Response # <<>>
               /\ ~HasBlacklistedContent(result[t].Response, checkedBlacklist[t])
        /\ result[t].Response # <<>> => result[t].Success

C7_Witness ==
    \E t \in Callers :
        /\ pc[t] = "done"
        /\ result[t].Success
        /\ result[t].Attempts >= 2
        /\ ~result[t].UsingGlobal
        /\ checkedBlacklist[t] = {S("bad")}
        /\ <<S("Bad"), S("day"), S("so")>> \in DOMAIN transitions

\* C8: when all 5 attempts fail the result has Triggered = true,
\* Success = false, an empty Response, Attempts = 5 and the reason of the
\* last failed attempt, and no step of a failing call changes the stored
\* last message.
C8_Failed ==
    \A t \in Threads :
        (pc[t] = "done" /\ genCalls[t] = 5 /\ ~result[t].Success) =>
            /\ result[t].Triggered
            /\ result[t].Response = <<>>
            /\ result[t].Attempts = 5
            /\ result[t].FailureReason =
                   IF lastOutput[t] = <<>> THEN "empty_generation" ELSE "blacklisted_word"

C8_LastMessageKept ==
    \A t \in Threads :
        ( /\ pc[t] \in {"gen", "check"}
          /\ <<pc[t], result[t]>> # <<pc'[t], result'[t]>>
          /\ ~result'[t].Success ) => lastMessage' = lastMessage

C8_AllAttemptsFail == []C8_Failed /\ [][C8_LastMessageKept]_vars

C8_Witness ==
    \E t \in Callers :
        /\ pc[t] = "done"
        /\ result[t].Triggered
        /\ ~result[t].Success
        /\ result[t].FailureReason = "blacklisted_word"
        /\ ~result[t].UsingGlobal
        /\ lastMessage # <<>>

\* C9: no store access on a brain whose Delete has run dereferences the
\* released handle.
C9_NoCrash == ~crashed

\* C10: the registry holds at most one Brain per lower-cased channel name;
\* NewBrain constructs at most one Brain for a key between two evictions of
\* it, and calls for the same name, in any letter case, that return in the
\* same such period return that Brain.
C10_SingleBrainPerChannel ==
    /\ \A k \in DOMAIN registry : k = ToLower(k)
    /\ \A k \in Keys : Cardinality(constructed[k]) <= 1
    /\ \A k \in DOMAIN registry : constructed[k] = {registry[k]}
    /\ \A t, u \in Threads :
         ( /\ gpc[t] = "done" /\ gpc[u] = "done"
           /\ gbrain[t] # 0 /\ gbrain[u] # 0
           /\ ToLower(gchannel[t]) = ToLower(gchannel[u])
           /\ epoch[t] = epoch[u] ) => gbrain[t] = gbrain[u]

C10_Witness ==
    \E t, u \in Threads :
        /\ t # u
        /\ gpc[t] = "done" /\ gpc[u] = "done"
        /\ viaLock[t] /\ viaLock[u]
        /\ gchannel[t] # gchannel[u]
        /\ gbrain[t] # 0
        /\ gbrain[t] = gbrain[u]

\* C11: every store read of GenerateGlobal is made with the brain's lock held
\* in read mode, and never while another thread holds it in write mode.
C11_LockDiscipline ==
    gaccess # <<>> => (gaccess.lock # "none" /\ gaccess.holder = "free")

\* C12: a call of Erase returns nil and leaves no transition, the counter at
\* 0 in memory and in the persisted state, and the brain's file in place.
C12_EraseClears ==
    [][ eraseErr' # eraseErr =>
            /\ eraseErr' = "nil"
            /\ transitions' = EmptyStore
            /\ msgCounter' = 0
            /\ stateCounter' \in {<<>>, <<0>>}
            /\ fileExists' ]_vars

\* a blacklist entry condemns a transition: a single word is a substring of
\* one of its three words, or two adjacent words of a phrase are its first
\* two or its last two words, letter case ignored
Condemned(triple, entry) ==
    LET parts == Fields(entry)
    IN  IF Len(parts) >= 2
        THEN \E i \in 1..(Len(parts) - 1) :
                 \/ /\ ToLower(triple[1]) = ToLower(parts[i])
                    /\ ToLower(triple[2]) = ToLower(parts[i + 1])
                 \/ /\ ToLower(triple[2]) = ToLower(parts[i])
                    /\ ToLower(triple[3]) = ToLower(parts[i + 1])
        ELSE \E k \in 1..3 : Contains(ToLower(triple[k]), ToLower(entry))

\* C13: Clean deletes exactly the transitions a blacklist entry condemns,
\* leaves every other row and its count as it was, and returns the number
\* of rows deleted.
C13_CleanExact ==
    [][ Clean =>
            LET doomed == {t \in DOMAIN transitions :
                              \E entry \in blacklist : Condemned(t, entry)}
            IN  /\ transitions' = [t \in DOMAIN transitions \ doomed |-> transitions[t]]
                /\ rowsRemoved' = <<Cardinality(doomed)>> ]_vars

\* C14: no text of a generation attempt, from Generate(20) or from
\* GenerateGlobal(20), has more than 20 whitespace-separated tokens.
C14_LengthCap ==
    /\ \A t \in Threads : Len(Fields(lastOutput[t])) <= 20
    /\ gg.pc = "done" => Len(Fields(Join(gg.result))) <= 20

\* C15: the text Generate returns starts with the first two words of a
\* stored transition, and each of its consecutive triples is a stored
\* transition.
C15_OutputFromStore ==
    [][ \A t \in Threads :
          (genCalls'[t] = genCalls[t] + 1 /\ args[t].globalGenerator = "nil") =>
              \A w \in {Fields(lastOutput'[t])} :
                  w # <<>> =>
                    /\ Len(w) >= 2
                    /\ \E row \in DOMAIN transitions : row[1] = w[1] /\ row[2] = w[2]
                    /\ \A i \in 1..(Len(w) - 2) :
                           <<w[i], w[i + 1], w[i + 2]>> \in DOMAIN transitions ]_vars

C15_Witness ==
    \E t \in Callers :
        /\ pc[t] = "check"
        /\ args[t].globalGenerator = "nil"
        /\ Len(Fields(lastOutput[t])) >= 4
        /\ Cardinality(DOMAIN transitions) >= 4

\* how many draws select a token
Draws(token) == Cardinality({r \in DOMAIN pureOut : pureOut[r] = token})

\* sum of the counts of a sequence of rows
RECURSIVE SumCounts(_)
SumCounts(rows) ==
    IF rows = <<>> THEN 0 ELSE rows[1][2] + SumCounts(Tail(rows))

\* C16: with candidates of counts c_1..c_k and total T, the draws are
\* 0..T-1, every draw selects one candidate, and candidate i is selected by
\* exactly c_i draws; a context without candidates adds no token and ends
\* the walk.
C16_WeightedSelection ==
    /\ pureFn = "Pick" =>
          /\ DOMAIN pureOut = 0..(SumCounts(pureIn) - 1)
          /\ \A r \in DOMAIN pureOut : \E i \in 1..Len(pureIn) : pureOut[r] = pureIn[i][1]
          /\ \A i \in 1..Len(pureIn) : Draws(pureIn[i][1]) = pureIn[i][2]
    /\ pureFn = "Walk" =>
          IF DOMAIN pureIn = {}
          THEN pureOut = {S("x y")}
          ELSE \A text \in pureOut : Len(Fields(text)) >= 3

C16_Witness ==
    /\ pureFn = "Pick"
    /\ pureIn = <<<<S("x"), 9>>, <<S("y"), 1>>>>
    /\ Draws(S("x")) = 9
    /\ Draws(S("y")) = 1

\* the count a brain's store gives a next word of the context (x, y)
CountIn(store, token) ==
    IF <<S("x"), S("y"), token>> \in DOMAIN store
    THEN store[<<S("x"), S("y"), token>>] ELSE 0

RECURSIVE SumOver(_, _)
SumOver(stores, token) ==
    IF stores = <<>> THEN 0
    ELSE CountIn(stores[1], token) + SumOver(Tail(stores), token)

\* C17: in GenerateGlobal a token is selected by as many draws as the sum of
\* its counts over the brains of the snapshot, out of T draws, T being the
\* total over all brains; there is no draw only when no brain has a
\* candidate.
C17_PooledWeights ==
    pureFn = "PoolPick" =>
        /\ \A token \in {S("za"), S("zb")} : Draws(token) = SumOver(pureIn, token)
        /\ Cardinality(DOMAIN pureOut) = SumOver(pureIn, S("za")) + SumOver(pureIn, S("zb"))
        /\ DOMAIN pureOut = {} <=> \A k \in 1..Len(pureIn) : DOMAIN pureIn[k] = {}

C17_Witness ==
    /\ pureFn = "PoolPick"
    /\ Len(pureIn) = 2
    /\ CountIn(pureIn[1], S("za")) = 3 /\ CountIn(pureIn[1], S("zb")) = 0
    /\ CountIn(pureIn[2], S("zb")) = 1 /\ CountIn(pureIn[2], S("za")) = 0
    /\ Draws(S("za")) = 3
    /\ Cardinality(DOMAIN pureOut) = 4

\* C18: containsBlacklistedWord is true exactly when an entry with a space
\* is a substring of the text, or an entry without one equals a token of the
\* text, letter case ignored.
C18_BlacklistMatch ==
    pureFn = "containsBlacklistedWord" =>
        pureOut = HasBlacklistedContent(pureIn[1], pureIn[2])

C18_Witness ==
    /\ pureFn = "containsBlacklistedWord"
    /\ pureIn = <<S("badger"), {S("bad")}>>
    /\ pureOut = FALSE

\* the characters normalizeASCII replaces
NormalizationTable == {r \in 128..\H2036 : Replacement(r) # <<r>>}

\* a call that no rejection condition other than the punctuation of the
\* normalization table could stop
OtherwiseEligible(a) ==
    /\ ~(Len(a.message) > 0 /\ a.message[1] = 33)
    /\ ToLower(a.username) # ToLower(a.botUsername)
    /\ ToLower(Channel) # ToLower(a.botUsername)
    /\ ToLower(a.username) \notin userBlacklist
    /\ \A pattern \in linkPatterns : ~Contains(ToLower(a.message), pattern)
    /\ ~HasBlacklistedContent(a.message, blacklist)
    /\ \A i \in 1..Len(a.message) :
          a.message[i] <= 127 \/ isEmoji(a.message[i]) \/ a.message[i] \in NormalizationTable

\* C19: an otherwise eligible message with punctuation of the normalization
\* table is accepted, and when its call has returned every triple of its
\* normalized text is a stored transition.
C19_PunctuationNormalized ==
    \A t \in Threads :
        ( /\ pc[t] = "done"
          /\ \E i \in 1..Len(args[t].message) : args[t].message[i] \in NormalizationTable
          /\ OtherwiseEligible(args[t]) ) =>
            LET w == Fields(normalizeASCII(args[t].message))
            IN  /\ learned[normalizeASCII(args[t].message)] > 0
                /\ \A i \in 1..(Len(w) - 2) :
                      <<w[i], w[i + 1], w[i + 2]>> \in DOMAIN transitions

\* a text of ASCII and emoji characters only, holding no link pattern
CleanText(text) ==
    /\ \A i \in 1..Len(text) : text[i] <= 127 \/ isEmoji(text[i])
    /\ \A pattern \in linkPatterns : ~Contains(ToLower(text), pattern)

\* C20: every token of a store fed only by ProcessMessageWithInfo is made of
\* ASCII and emoji characters and holds no link pattern, and every text
\* Generate or GenerateGlobal produces from it passes containsLink and
\* isMostlyEnglish.
C20_StoreClean ==
    /\ \A triple \in DOMAIN transitions : \A k \in 1..3 : CleanText(triple[k])
    /\ \A t \in Threads :
          args[t].globalGenerator = "nil" =>
              ~containsLink(lastOutput[t]) /\ isMostlyEnglish(lastOutput[t])
    /\ ~containsLink(Join(gg.result)) /\ isMostlyEnglish(Join(gg.result))

C20_Witness ==
    /\ \E t \in Callers :
          /\ args[t].globalGenerator = "nil"
          /\ Len(Fields(lastOutput[t])) >= 3
    /\ gg.pc = "done"
    /\ Len(gg.result) >= 3
    /\ \E triple \in DOMAIN transitions : triple[3] = <<\H1F600>>
    /\ calls = MaxCalls

\* C21: the interval a call compares the counter with lies in 1..100,
\* whatever values were written through SetChannelMessageInterval and
\* SetMessageInterval.
C21_IntervalInRange ==
    /\ IntervalInForce \in 1..100
    /\ \A t \in Threads : ordinal[t] > 0 => result[t].Interval \in 1..100

\* C22: every stored transition has a count of at least 1; an
\* UpdateTransitionCount with a count below 1 leaves no row for the triple,
\* and no UpdateTransitionCount creates a row.
C22_Positive == \A triple \in DOMAIN transitions : transitions[triple] >= 1

C22_Update ==
    \A triple \in EditTriples, count \in CountValues :
        UpdateTransitionCount(triple, count) =>
            /\ DOMAIN transitions' \subseteq DOMAIN transitions
            /\ count < 1 => triple \notin DOMAIN transitions'
            /\ (count >= 1 /\ triple \in DOMAIN transitions) => transitions'[triple] = count

C22_CountAtLeastOne == []C22_Positive /\ [][C22_Update]_vars

C22_Witness ==
    /\ edits > 0
    /\ rowsRemoved # <<>>
    /\ <<S("go"), S("go"), <<\H1F600>>>> \notin DOMAIN transitions
    /\ learned[LongMessage] > 0
    /\ \E triple \in DOMAIN transitions : transitions[triple] >= 2

\* C23: a GetBrain call whose NewBrain fails returns nil and leaves the
\* registry as it was, without an entry for the channel, so the brains of
\* other channels stay registered and a later call constructs again; no
\* call is answered from a nil entry.
C23_NothingCached ==
    \A t \in Threads :
        (gpc[t] = "miss" /\ gpc'[t] = "done" /\ gbrain'[t] = 0) =>
            /\ registry' = registry
            /\ ToLower(gchannel[t]) \notin DOMAIN registry'

C23_NoNilEntry == \A key \in DOMAIN registry : registry[key] # 0

C23_FailedConstruction == []C23_NoNilEntry /\ [][C23_NothingCached]_vars

\* one call failed for a channel while another channel's brain was
\* registered, and a later call for the same channel constructed its brain
C23_Witness ==
    \E t, u \in Threads :
        /\ gpc[t] = "done" /\ gbrain[t] = 0 /\ viaLock[t]
        /\ gpc[u] = "done" /\ gbrain[u] # 0 /\ viaLock[u]
        /\ ToLower(gchannel[t]) = ToLower(gchannel[u])
        /\ epoch[t] = evictions[ToLower(gchannel[t])]
        /\ epoch[u] = evictions[ToLower(gchannel[u])]
        /\ registry[ToLower(gchannel[u])] = gbrain[u]
        /\ \E key \in DOMAIN registry : key # ToLower(gchannel[u])

\* C24: the brain GetBrain yields after RemoveBrain has the transition rows
\* and counts, the message counter and the last message the brain had
\* before the removal.
C24_RemoveKeepsState ==
    [][ RemoveBrainGetBrain =>
          /\ transitions' = transitions
          /\ msgCounter' = msgCounter
          /\ lastMessage' = lastMessage ]_vars

\* C25: when DeleteBrain returns, the channel has no entry in the registry
\* and no database file, whether or not a Brain was loaded for it.
C25_DeleteBrainRemoves ==
    [][ DeleteBrainRemove =>
          /\ deleter[1] \notin DOMAIN registry'
          /\ deleter[1] \notin files' ]_vars

\* a step of ProcessMessageWithInfo on this brain's channel
TrafficStep == \E t \in Threads : pc'[t] # pc[t]

\* a step of GenerateGlobal
GlobalStep == gg' # gg

\* C26: a step of ProcessMessageWithInfo, with the local or with a
\* cross-channel generator, leaves the brains of the other channels as they
\* are, and a step of GenerateGlobal changes neither their transitions,
\* counter and last message nor those of this brain.
C26_Isolation ==
    [][ /\ TrafficStep => others' = others
        /\ GlobalStep =>
              /\ others' = others
              /\ UNCHANGED <<transitions, msgCounter, stateCounter, lastMessage>> ]_vars

\* a cross-channel text with a word of the other brain is being returned
\* while this brain has learned and answered on its own
C26_Witness ==
    /\ Len(others) = 1
    /\ others[1].transitions # EmptyStore
    /\ gg.pc = "done"
    /\ \E i \in 1..Len(gg.result) : gg.result[i] \in {S("far"), S("off")}
    /\ transitions # EmptyStore
    /\ lastMessage # <<>>
    /\ others[1].lastMessage = S("so far")

\* C27: the counter is reset to 0, in memory and persisted, before the
\* attempts of a triggered cycle begin; a cycle whose attempts all failed
\* returns no text; and with interval n the eligible calls after it do not
\* trigger until the n-th, which does.
C27_ResetBeforeAttempts ==
    \A t \in Threads :
        (pc[t] = "unlock" /\ pc'[t] = "gen") =>
            msgCounter' = 0 /\ stateCounter' = <<0>>

C27_NextAfterInterval ==
    \A t, u \in Threads :
        ( /\ pc[t] = "done" /\ result[t].Triggered /\ ~result[t].Success
          /\ pc[u] \in {"gen", "check", "done"}
          /\ ordinal[u] > ordinal[t] ) =>
            /\ result[t].Response = <<>>
            /\ ordinal[u] < ordinal[t] + IntervalInForce => ~result[u].Triggered
            /\ ordinal[u] = ordinal[t] + IntervalInForce => result[u].Triggered

C27_FailedCycle == []C27_NextAfterInterval /\ [][C27_ResetBeforeAttempts]_vars

\* after a cycle that failed five times, the call that is the n-th eligible
\* one after it is triggered
C27_Witness ==
    \E t, u \in Threads :
        /\ pc[t] = "done" /\ result[t].Triggered /\ ~result[t].Success
        /\ result[t].Attempts = 5
        /\ pc[u] = "done" /\ ordinal[u] = ordinal[t] + IntervalInForce
        /\ result[u].Triggered

\* C28: every distinct (word1, word2) pair of the store is the seed of
\* Generate for the same number of equally likely draws, however many rows
\* it has.
C28_UniformSeed ==
    pureFn = "Seed" =>
        \A t, u \in DOMAIN pureIn :
            Draws(<<t[1], t[2]>>) = Draws(<<u[1], u[2]>>)

\* C29: GetStats reports as UniquePairs the number of distinct
\* (word1, word2) pairs of the store and as TotalEntries its number of rows.
C29_Stats ==
    pureFn = "GetStats" =>
        /\ pureOut.UniquePairs = Cardinality({ <<t[1], t[2]>> : t \in DOMAIN pureIn })
        /\ pureOut.TotalEntries = Cardinality(DOMAIN pureIn)

\* a row that is a three-way loop or has a word with a character that
\* is neither accepted by the test given nor an emoji
Flagged(triple, Accepted(_)) ==
    \/ (triple[1] = triple[2] /\ triple[2] = triple[3])
    \/ \E k \in 1..3 : \E i \in 1..Len(triple[k]) :
          ~Accepted(triple[k][i]) /\ ~isEmoji(triple[k][i])

IsASCII(r) == r <= 127

IsPrintableASCII(r) == r \in 32..126

\* what is left and what is returned when exactly the flagged rows go
CleanedExactly(Accepted(_)) ==
    LET doomed == {t \in DOMAIN pureIn : Flagged(t, Accepted)}
    IN  /\ pureOut[1] = [t \in DOMAIN pureIn \ doomed |-> pureIn[t]]
        /\ pureOut[2] = Cardinality(doomed)

\* C30 (amended): CleanNonASCII deletes exactly the rows that are three-way
\* loops or have a word with a character above 127 that is no emoji, leaves
\* every other row and its count as they are, and returns the number of
\* rows deleted.
C30_CleanNonASCIIExact ==
    pureFn = "CleanNonASCII" => CleanedExactly(IsASCII)

\* C30 as stated: the rows deleted are the loops and the rows with a
\* character outside printable ASCII that is no emoji.
C30_PrintableASCII ==
    pureFn = "CleanNonASCII" => CleanedExactly(IsPrintableASCII)

C30_Witness ==
    /\ pureFn = "CleanNonASCII"
    /\ DOMAIN pureIn = LegacyTriples
    /\ pureOut[2] = 2
    /\ DOMAIN pureOut[1] =
          { <<S("go"), <<\H1F600>>, S("ok")>>, <<<<1>> \o S("go"), S("so"), S("ok")>>,
            <<S("Bad"), S("day"), S("so")>> }
    /\ \E t \in DOMAIN pureOut[1] : pureOut[1][t] = MaxCount

\* C31: an eligible message with fewer than 3 tokens records no transition
\* and raises no error, but still increments the channel message count and
\* the message counter, and triggers generation exactly when the counter
\* thereby reaches the interval.
C31_ShortMessage ==
    [][\A t \in Callers :
          Len(Fields(local[t].message)) < 3 =>
              /\ (pc[t] = "learn" /\ pc'[t] # "learn") =>
                     /\ transitions' = transitions
                     /\ ~crashed'
                     /\ channelMessages' = channelMessages + 1
                     /\ pc'[t] = "counter"
              /\ (pc[t] = "counter" /\ pc'[t] # "counter") =>
                     /\ msgCounter' = msgCounter + 1
                     /\ transitions' = transitions
              /\ (pc[t] = "unlock" /\ pc'[t] # "unlock") =>
                     /\ transitions' = transitions
                     /\ (pc'[t] = "gen" /\ result'[t].Triggered)
                            = (msgCounter >= IntervalInForce)
                     /\ (pc'[t] = "done" /\ ~result'[t].Triggered)
                            = (msgCounter < IntervalInForce)]_vars

C31_Witness ==
    \E t \in Callers :
        /\ pc[t] = "gen"
        /\ local[t].message = S("hi")
        /\ result[t].Triggered
        /\ IntervalInForce = 2
        /\ transitions = EmptyStore
        /\ channelMessages = 2
        /\ learned[S("go go")] = 1

\* C32: when Clean has completed with blacklist B, every text Generate can
\* return from the store it left passes the send-eligibility check against
\* B, for single-word entries and for phrase entries alike.
C32_CleanedStoreGeneratesClean ==
    [][(\/ rowsRemoved' # rowsRemoved
        \/ (/\ DOMAIN transitions' # DOMAIN transitions
            /\ DOMAIN transitions' \subseteq DOMAIN transitions)) =>
           \A text \in Generate(transitions', MaxWords) :
               ~containsBlacklistedWord(text, blacklist')]_vars

\* C33: when DeleteBrain and the GetBrain calls running with it have
\* returned, every channel the registry holds a Brain for has its database
\* file.
C33_LoadedBrainHasStorage ==
    (deleter = <<>> /\ \A t \in Threads : gpc[t] # "miss") =>
        \A k \in DOMAIN registry : k \in files

\* C34: no two goroutines are inside a call on the brain's rng at the same
\* time, whether they run Generate or GenerateGlobal.
C34_RngExclusive == \A g, h \in InRng : g = h

\* C35: with a constant interval n >= 1 and the counter starting below n,
\* the counter is at least 0 and below n whenever the brain's lock is free,
\* in every interleaving of ProcessMessageWithInfo calls.
C35_CounterBelowInterval ==
    mu = "free" => (0 <= msgCounter /\ msgCounter < IntervalInForce)

C35_Witness ==
    /\ mu = "free"
    /\ IntervalInForce = 2
    /\ msgCounter = 1
    /\ eligible = 3
    /\ \A t \in Threads : pc[t] \in {"gen", "check", "done"}

C37_GenerateTerminates ==
    pureFn = "Generate" =>
        /\ pureOut # {}
        /\ IF DOMAIN pureIn[1] = {}
           THEN pureOut = {<<>>}
           ELSE \A text \in pureOut :
                  \A w \in {Fields(text)} :
                      /\ Len(w) \in 3..(pureIn[2] + 2)
                      /\ \E row \in DOMAIN pureIn[1] : row[1] = w[1] /\ row[2] = w[2]

C37_Witness ==
    /\ pureFn = "Generate"
    /\ DOMAIN pureIn[1] = CycleTriples
    /\ pureIn[2] = MaxGenerate
    /\ S("x y x y x") \in pureOut
    /\ S("y x za") \in pureOut

\* C38: ProcessMessageWithInfo never reports the FailureReason "unknown":
\* a call that ends after 5 failed attempts reports empty_generation or
\* blacklisted_word, and every other result has no reason.
C38_NoUnknownReason ==
    \A t \in Threads :
        /\ result[t].FailureReason # "unknown"
        /\ pc[t] = "done" =>
              IF result[t].Triggered /\ ~result[t].Success
              THEN result[t].FailureReason \in {"empty_generation", "blacklisted_word"}
              ELSE result[t].FailureReason = ""

C38_Witness ==
    \E t \in Callers :
        /\ pc[t] = "done"
        /\ genCalls[t] = MaxAttempts
        /\ result[t].Attempts = MaxAttempts
        /\ ~result[t].Success
        /\ result[t].FailureReason = "empty_generation"
        /\ ~result[t].UsingGlobal

\* C39: ConnectWithRetry dials at most maxRetries+1 times, waits
\* min(baseDelay * 2^(k-1), 60s) before retry k, and when every dial fails it
\* returns an error, having sent no IRC command, not set running and not
\* invoked onConnect.
C39_ConnectWithRetry ==
    /\ client.dials <= client.maxRetries + 1
    /\ \A k \in 1..Len(client.waits) :
          client.waits[k] =
              IF client.baseDelay * 2^(k - 1) < 60 THEN client.baseDelay * 2^(k - 1) ELSE 60
    /\ (client.pc = "done" /\ client.dials = client.maxRetries + 1 /\ client.conn # "conn") =>
          /\ client.ret = "error"
          /\ client.sent = <<>>
          /\ ~client.running
          /\ client.onConnect = 0

====
